---- MODULE Spec2Model ----
(***************************************************************************)
(* A model of the translation orchestration engine of chroma-translator:   *)
(*   - DebounceManager's named queue (src/src/shared/debounce-manager.ts)  *)
(*   - CacheManager (src/src/shared/cache-manager.ts)                      *)
(*   - TranslationService.translate and BatchTranslationManager            *)
(*     (src/src/background/*.ts)                                           *)
(*   - the content script's extraction / apply / restore                   *)
(*     (src/src/content/content.ts)                                        *)
(* Each subsystem has its own specification (SpecQueue, SpecCache,         *)
(* SpecBatch, SpecDom); the variables of the other subsystems stay at      *)
(* their initial values in it.                                             *)
(***************************************************************************)
EXTENDS Integers, Sequences, FiniteSets, TLC

VARIABLES
  \* ---- DebounceManager: one named queue ('translation_batch') ----
  queue,            \* this.queues.get(name): sequence of QueueItem
  processing,       \* name \in this.processingQueues
  current,          \* the item the drain loop is awaiting the processor for
  nextId,           \* number of items created so far + 1
  \* history of the queue, kept for the properties
  submitted,        \* priority option of every item, in submission order
  maxR,             \* effective maxRetries of every item, in submission order
  firstStarts,      \* item ids in the order of their first execution
  lastStart,        \* priority of the item started last, and of those left waiting
  execs,            \* per item: number of times the processor was called on it
  fails,            \* per item: number of times the processor rejected
  retries,          \* per item: number of times it re-entered the queue
  outcome,          \* per item: "none" | "succeeded" | "failed"
  addAfterSettle,   \* an item was submitted after some processor call settled
  \* ---- CacheManager ----
  memoryCache,      \* the Map, as the sequence of its entries in insertion order
  cacheStats,       \* {hits, misses}
  now,              \* Date.now()
  \* history of the cache, kept for the properties
  cacheOps,         \* numbers of set, get and clock steps taken
  lastOp,           \* the last cache operation, its arguments and what it returned
  lastSetAt,        \* per cache key: time of the last completed set, -1 if none
  lastAccessAt,     \* per cache key: time of its last set or successful get, -1 if none
  evictedKeys,      \* the keys enforceCacheLimit removed
  insertedKeys,     \* the cache keys set so far
  disturbed,        \* an entry was removed as expired, or a key was set twice
  \* ---- TranslationService and BatchTranslationManager ----
  batch,            \* per translateBatch call: its texts, results, progress and abort flag
  phase,            \* where processTranslationItem stands for the item in `current`
  processingQueue,  \* the keys of BatchTranslationManager.processingQueue
  isApiAvailable,   \* TranslationService.isApiAvailable: "null", "true" or "false"
  singles,          \* the single-text translate requests (handleTranslateText)
  \* the environment of the background page
  apiPresent,       \* what checkApiAvailability finds
  failBudget,       \* per text: failures the capability still answers it with
  \* history of the batches, kept for the properties
  progressLog,      \* per batch: the progress objects onProgress was called with
  unitOutcome,      \* per batch and unit: "none", or how its translate was rejected
  callsStarted,     \* per text: capability calls started for it
  \* ---- content script ----
  dom,              \* the document: its elements in document order
  originalTexts,    \* the Map elementId -> original text
  \* history of the page, kept for the properties
  pristine,         \* the document as it was loaded
  passes,           \* runs of analyzePageElements: 0, 1, or 2 for more than one
  lastStep,         \* the last operation of the content script
  \* ---- ErrorHandler ----
  retryAttempts,    \* the Map retryKey -> attempts
  errorClock,       \* Date.now() as handleError reads it
  handling,         \* the call of handleError under way, and what it did so far
  \* ---- chrome.storage.local, as CacheManager uses it ----
  localStorage,     \* what is stored under STORAGE_KEYS.CACHE, and which calls failed so far
  \* ---- content script: the page translation session ----
  translatableElements,\* this.translatableElements, in the order analyzePageElements leaves
  isFullPageTranslationActive,\* this.isFullPageTranslationActive
  pageRun,          \* where translateFullPage stands: its batches and the request it awaits
  applied,          \* history: the element ids handleBatchTranslationResults updated, in order
  restoresInARow,   \* history: the calls of restoreOriginalPage since the last other step
  \* ---- DebounceManager: removals from the queue ----
  removed,          \* history: the ids that removeFromQueue found and removed
  \* ---- BatchTranslationManager: priorities computed for misses ----
  computed,         \* history: the last two calls of calculateTextPriority: text, index and result
  \* ---- ContentScript: translation of the selected text and its retries ----
  selectedText,     \* this.selectedText
  isSelectionValid, \* this.isSelectionValid
  contentRetryAttempts,\* this.retryAttempts of the content script: request key to count
  contentClock,     \* Date.now() in the content script
  selectedRun,      \* the request under way: position, messages sent, the attempts read and the delay chosen
  \* ---- DebounceManager: createDebouncedTranslation ----
  pendingTranslations,\* key to the caller whose resolve and reject are stored
  debounceTimer,    \* the timer of the debounce key 'translation': the arguments it will pass, or NoTimer
  translationsInFlight,\* calls of translationFn awaited: key and the caller captured as pending
  promises,         \* the promise returned to each caller: none, pending, resolved or rejected
  nextCaller,       \* number of the next call
  \* ---- DebounceManager: a queue created again while its drain loop runs ----
  loopQueue,        \* the array the running drain loop holds when createQueue has put a new one in the map
  detached,         \* the running drain loop holds an array that is no longer the one in the map
  \* ---- content script of part_006: the element-by-element page translation ----
  isTranslating,    \* this.isTranslating
  realtimeRun,      \* where translateElementsRealtime stands: its index and the element whose translation it awaits
  lateApplied,      \* history: ids of the elements a pass updated after restoreOriginalPage had returned during it
  \* ---- content script: a page translation started while another still runs ----
  secondRun,        \* the loop of a translateFullPage call made while the loop in pageRun was still awaiting
  \* ---- BatchTranslationManager: a caller whose onProgress throws ----
  onProgressThrows, \* when the onProgress the caller passed throws: never, at its first call, or always
  counted,          \* history: the unit indexes in the order progress.completed was incremented for them
  ran,              \* history: the unit indexes in the order processTranslationItem ended for them
  completedOnce     \* history: the units whose result was COMPLETED at some moment

queueVars == <<queue, processing, current, nextId, submitted, maxR, firstStarts,
               lastStart, execs, fails, retries, outcome, addAfterSettle>>

cacheVars == <<memoryCache, cacheStats, now, cacheOps, lastOp, lastSetAt,
               lastAccessAt, evictedKeys, insertedKeys, disturbed>>

batchVars == <<batch, phase, processingQueue, isApiAvailable, singles, apiPresent,
               failBudget, progressLog, unitOutcome, callsStarted>>

domVars == <<dom, originalTexts, pristine, passes, lastStep>>

errorVars == <<retryAttempts, errorClock, handling>>

storageVars == <<localStorage>>

pageVars == <<translatableElements, isFullPageTranslationActive, pageRun, applied, restoresInARow>>

removalVars == <<removed>>

priorityVars == <<computed>>

selectionVars == <<selectedText, isSelectionValid, contentRetryAttempts, contentClock, selectedRun>>

debounceVars == <<pendingTranslations, debounceTimer, translationsInFlight, promises, nextCaller>>

recreateVars == <<loopQueue, detached>>

realtimeVars == <<isTranslating, realtimeRun, lateApplied>>

concurrentVars == <<secondRun>>

callbackVars == <<onProgressThrows, counted, ran, completedOnce>>

vars == <<queueVars, cacheVars, batchVars, domVars, errorVars, storageVars, pageVars, removalVars, priorityVars, selectionVars, debounceVars, recreateVars, realtimeVars, concurrentVars, callbackVars>>

\* the element of a singleton set.  Only({e : x \in {arg}}) is e with arg for
\* x, and computes arg once however often e uses x
Only(set) == CHOOSE x \in set : TRUE

Max(a, b) == IF a >= b THEN a ELSE b
Min(a, b) == IF a <= b THEN a ELSE b

(***************************************************************************)
(* DebounceManager queue                                                   *)
(***************************************************************************)
MaxTasks == 3                \* items submitted in one behaviour
MaxRemovalTasks == 4         \* items submitted in one behaviour with removals
ItemIds == 1..Max(MaxTasks, MaxRemovalTasks)
DefaultMaxRetries == 3       \* options.maxRetries || 3
Priorities == {1, 3, 5}      \* options.priority values submitted
MaxRetriesOptions == {0, 1}  \* options.maxRetries: 0 (unset) or 1

NoItem == [id |-> 0, data |-> 0, priority |-> 0, retryCount |-> 0, maxRetries |-> 0]

\* the comparator handed to queue.sort: (a, b) => b.priority - a.priority
comparePriority_ascending(a, b) == a.priority - b.priority
comparePriority(a, b) == b.priority - a.priority

\* Array.prototype.sort is stable: x, coming last, goes behind every element
\* the comparator does not put after it
RECURSIVE insertSorted_beforeEquals(_, _)
insertSorted_beforeEquals(s, x) ==
  IF s = <<>> THEN <<x>>
  ELSE IF comparePriority(Head(s), x) < 0
       THEN <<Head(s)>> \o insertSorted_beforeEquals(Tail(s), x)
       ELSE <<x>> \o s

RECURSIVE insertSorted(_, _)
insertSorted(s, x) ==
  IF s = <<>> THEN <<x>>
  ELSE IF comparePriority(Head(s), x) <= 0
       THEN <<Head(s)>> \o insertSorted(Tail(s), x)
       ELSE <<x>> \o s

RECURSIVE sortQueue(_)
sortQueue(q) ==
  IF q = <<>> THEN <<>>
  ELSE insertSorted(sortQueue(SubSeq(q, 1, Len(q) - 1)), q[Len(q)])

\* the item addToQueue builds
newItem(id, data, priorityOpt, maxRetriesOpt) ==
  [id |-> id, data |-> data, priority |-> priorityOpt, retryCount |-> 0,
   maxRetries |-> IF maxRetriesOpt = 0 THEN DefaultMaxRetries ELSE maxRetriesOpt]

\* queue.push(item); queue.sort(...)
pushSorted(q, item) == sortQueue(Append(q, item))

\* the retry test of processQueue's catch block
shouldRetry_inclusive(item) == item.retryCount <= item.maxRetries
shouldRetry(item) == item.retryCount < item.maxRetries

\* item.retryCount++; item.priority = Math.max(0, item.priority - 1)
retryItem(item) ==
  [item EXCEPT !.retryCount = @ + 1, !.priority = Max(0, @ - 1)]

\* the queue after the catch block of processQueue ran for a rejected item
afterRejection(q, item) ==
  IF shouldRetry(item) THEN pushSorted(q, retryItem(item)) ELSE q

prioritiesOf(q) == {q[i].priority : i \in 1..Len(q)}

InitQueue ==
  /\ queue = <<>>
  /\ processing = FALSE
  /\ current = NoItem
  /\ nextId = 1
  /\ submitted = <<>>
  /\ maxR = <<>>
  /\ firstStarts = <<>>
  /\ lastStart = [prio |-> 0, waiting |-> {}]
  /\ execs = [i \in ItemIds |-> 0]
  /\ fails = [i \in ItemIds |-> 0]
  /\ retries = [i \in ItemIds |-> 0]
  /\ outcome = [i \in ItemIds |-> "none"]
  /\ addAfterSettle = FALSE

\* the head of processQueue's while loop on queue q: shift the next item and
\* call the processor on it, or leave the loop and delete the name from
\* processingQueues
drainLoop(q) ==
  IF Len(q) > 0
  THEN /\ current' = Head(q)
       /\ queue' = Tail(q)
       /\ processing' = TRUE
       /\ lastStart' = [prio |-> Head(q).priority, waiting |-> prioritiesOf(Tail(q))]
       /\ execs' = [execs EXCEPT ![Head(q).id] = @ + 1]
       /\ firstStarts' = IF execs[Head(q).id] = 0
                         THEN Append(firstStarts, Head(q).id) ELSE firstStarts
  ELSE /\ current' = NoItem
       /\ queue' = q
       /\ processing' = FALSE
       /\ UNCHANGED <<lastStart, execs, firstStarts>>

InitRecreate == loopQueue = <<>> /\ detached = FALSE

\* the head of the while loop of a drain loop whose array was replaced in the
\* map by createQueue: it drains the array it holds (q), and the array in the
\* map is not looked at
drainDetached(q) ==
  /\ queue' = queue
  /\ IF Len(q) > 0
     THEN /\ current' = Head(q)
          /\ loopQueue' = Tail(q)
          /\ detached' = TRUE
          /\ processing' = TRUE
          /\ lastStart' = [prio |-> Head(q).priority, waiting |-> prioritiesOf(Tail(q))]
          /\ execs' = [execs EXCEPT ![Head(q).id] = @ + 1]
          /\ firstStarts' = IF execs[Head(q).id] = 0
                            THEN Append(firstStarts, Head(q).id) ELSE firstStarts
     ELSE /\ current' = NoItem
          /\ loopQueue' = <<>>
          /\ detached' = FALSE
          /\ processing' = FALSE
          /\ UNCHANGED <<lastStart, execs, firstStarts>>

\* the loop goes on after the processor settled; q(array) is what the catch
\* block left of the array the loop holds
continueLoop(q(_)) ==
  IF detached THEN drainDetached(q(loopQueue))
  ELSE drainLoop(q(queue)) /\ UNCHANGED recreateVars

\* createQueue(name, processor) for the name of the queue: a new empty array
\* is put in the map; a running drain loop keeps the array it holds
createQueue ==
  /\ queue' = <<>>
  /\ IF processing
     THEN /\ detached' = TRUE
          /\ loopQueue' = IF detached THEN loopQueue ELSE queue
     ELSE UNCHANGED recreateVars
  /\ UNCHANGED <<processing, current, nextId, submitted, maxR, firstStarts, lastStart,
                 execs, fails, retries, outcome, addAfterSettle>>
  /\ UNCHANGED <<cacheVars, batchVars, domVars, errorVars, storageVars, pageVars,
                 removalVars, priorityVars, selectionVars, debounceVars, realtimeVars,
                 concurrentVars, callbackVars>>

\* addToQueue(name, data, {priority, maxRetries}); it ends with
\* processQueue(name), which returns at once while a drain loop is running
addToQueue(p, mr) ==
  /\ nextId \in ItemIds
  /\ LET item == newItem(nextId, nextId, p, mr)
         q1 == pushSorted(queue, item)
     IN /\ nextId' = nextId + 1
        /\ submitted' = Append(submitted, p)
        /\ maxR' = Append(maxR, item.maxRetries)
        /\ addAfterSettle' = (addAfterSettle \/ \E i \in ItemIds : fails[i] > 0 \/ outcome[i] # "none")
        /\ IF processing
           THEN /\ queue' = q1
                /\ UNCHANGED <<processing, current, lastStart, execs, firstStarts>>
           ELSE drainLoop(q1)
        /\ UNCHANGED <<fails, retries, outcome>>
  /\ UNCHANGED cacheVars
  /\ UNCHANGED batchVars
  /\ UNCHANGED domVars
  /\ UNCHANGED errorVars
  /\ UNCHANGED callbackVars
  /\ UNCHANGED concurrentVars
  /\ UNCHANGED realtimeVars
  /\ UNCHANGED recreateVars
  /\ UNCHANGED debounceVars
  /\ UNCHANGED selectionVars
  /\ UNCHANGED priorityVars
  /\ UNCHANGED removalVars
  /\ UNCHANGED pageVars
  /\ UNCHANGED storageVars

\* await processor(item.data) resolved
processorResolves ==
  /\ current # NoItem
  /\ outcome' = [outcome EXCEPT ![current.id] = "succeeded"]
  /\ continueLoop(LAMBDA array : array)
  /\ UNCHANGED <<nextId, submitted, maxR, fails, retries, addAfterSettle>>
  /\ UNCHANGED cacheVars
  /\ UNCHANGED batchVars
  /\ UNCHANGED domVars
  /\ UNCHANGED errorVars
  /\ UNCHANGED callbackVars
  /\ UNCHANGED concurrentVars
  /\ UNCHANGED realtimeVars
  /\ UNCHANGED debounceVars
  /\ UNCHANGED selectionVars
  /\ UNCHANGED priorityVars
  /\ UNCHANGED removalVars
  /\ UNCHANGED pageVars
  /\ UNCHANGED storageVars

\* await processor(item.data) rejected: the catch block, then the loop
processorRejects ==
  /\ current # NoItem
  /\ fails' = [fails EXCEPT ![current.id] = @ + 1]
  /\ retries' = IF shouldRetry(current)
                THEN [retries EXCEPT ![current.id] = @ + 1] ELSE retries
  /\ outcome' = IF shouldRetry(current)
                THEN outcome ELSE [outcome EXCEPT ![current.id] = "failed"]
  /\ continueLoop(LAMBDA array : afterRejection(array, current))
  /\ UNCHANGED <<nextId, submitted, maxR, addAfterSettle>>
  /\ UNCHANGED cacheVars
  /\ UNCHANGED batchVars
  /\ UNCHANGED domVars
  /\ UNCHANGED errorVars
  /\ UNCHANGED callbackVars
  /\ UNCHANGED concurrentVars
  /\ UNCHANGED realtimeVars
  /\ UNCHANGED debounceVars
  /\ UNCHANGED selectionVars
  /\ UNCHANGED priorityVars
  /\ UNCHANGED removalVars
  /\ UNCHANGED pageVars
  /\ UNCHANGED storageVars

\* queue.findIndex(item => item.id === itemId): position of the first match, 0 for none
findIndex(q, itemId) ==
  IF \E i \in 1..Len(q) : q[i].id = itemId
  THEN CHOOSE i \in 1..Len(q) : q[i].id = itemId /\ \A j \in 1..(i - 1) : q[j].id # itemId
  ELSE 0

\* a splice that takes the following item as well
splice_two(q, index) == SubSeq(q, 1, index - 1) \o SubSeq(q, index + 2, Len(q))

\* queue.splice(index, 1)
splice(q, index) == SubSeq(q, 1, index - 1) \o SubSeq(q, index + 1, Len(q))

InitRemoval == removed = {}

\* removeFromQueue(name, itemId) for an item that waits in the queue (for any
\* other id it returns false and changes nothing)
removeFromQueue(itemId) ==
  /\ findIndex(queue, itemId) # 0
  /\ queue' = splice(queue, findIndex(queue, itemId))
  /\ removed' = removed \cup {itemId}
  /\ UNCHANGED <<processing, current, nextId, submitted, maxR, firstStarts, lastStart,
                 execs, fails, retries, outcome, addAfterSettle>>
  /\ UNCHANGED cacheVars
  /\ UNCHANGED batchVars
  /\ UNCHANGED domVars
  /\ UNCHANGED errorVars
  /\ UNCHANGED callbackVars
  /\ UNCHANGED concurrentVars
  /\ UNCHANGED realtimeVars
  /\ UNCHANGED recreateVars
  /\ UNCHANGED debounceVars
  /\ UNCHANGED selectionVars
  /\ UNCHANGED priorityVars
  /\ UNCHANGED pageVars
  /\ UNCHANGED storageVars

NextQueue ==
  \/ \E p \in Priorities, mr \in MaxRetriesOptions : nextId <= MaxTasks /\ addToQueue(p, mr)
  \/ processorResolves
  \/ processorRejects

\* the queue with the default priority 0 next to priority 1
RetryPriorities == {0, 1}

NextRetry ==
  \/ \E p \in RetryPriorities, mr \in MaxRetriesOptions : nextId <= MaxTasks /\ addToQueue(p, mr)
  \/ processorResolves
  \/ processorRejects

\* the queue created again at any moment
NextRecreate ==
  \/ \E p \in RetryPriorities : nextId <= MaxTasks /\ addToQueue(p, 1)
  \/ processorResolves
  \/ processorRejects
  \/ createQueue

\* the queue with removals: up to MaxRemovalTasks items of two priorities, none
\* of them retried
RemovalPriorities == {1, 3}

NextRemoval ==
  \/ \E p \in RemovalPriorities : nextId <= MaxRemovalTasks /\ addToQueue(p, 0)
  \/ processorResolves
  \/ processorRejects
  \/ \E itemId \in ItemIds : removeFromQueue(itemId)

(***************************************************************************)
(* Texts: sequences of UTF-16 code units                                   *)
(***************************************************************************)
Whitespace == {9, 10, 13, 32}

RECURSIVE trimStart(_)
trimStart(s) ==
  IF s # <<>> /\ Head(s) \in Whitespace THEN trimStart(Tail(s)) ELSE s

RECURSIVE trimEnd(_)
trimEnd(s) ==
  IF s # <<>> /\ s[Len(s)] \in Whitespace THEN trimEnd(SubSeq(s, 1, Len(s) - 1)) ELSE s

\* String.prototype.trim
trim(s) == trimEnd(trimStart(s))

\* String.prototype.toLowerCase / toUpperCase on the ASCII letters
toLowerCase(s) == [i \in 1..Len(s) |-> IF s[i] \in 65..90 THEN s[i] + 32 ELSE s[i]]
toUpperCase(s) == [i \in 1..Len(s) |-> IF s[i] \in 97..122 THEN s[i] - 32 ELSE s[i]]

\* A 32-bit integer as its two 16-bit halves <<high, low>> (two's complement)
\* one step of hashString's loop: hash = ((hash << 5) - hash) + char; hash = hash & hash
\* that is 31 * hash + char reduced to 32 bits
hashStep(h, char) ==
  LET low == 31 * h[2] + char
      high == 31 * h[1] + (low \div 65536)
  IN <<high % 65536, low % 65536>>

RECURSIVE hashFrom(_, _)
hashFrom(h, s) ==
  IF s = <<>> THEN h ELSE hashFrom(hashStep(h, Head(s)), Tail(s))

\* Math.abs of a 32-bit integer: a negative one (high bit set) is negated
abs32(h) ==
  IF h[1] < 32768 THEN h
  ELSE IF h[2] = 0 THEN <<65536 - h[1], 0>>
  ELSE <<65535 - h[1], 65536 - h[2]>>

\* hashString: Math.abs(hash).toString(36), kept as the number it writes
hashString(s) == abs32(hashFrom(<<0, 0>>, s))

(***************************************************************************)
(* CacheManager                                                            *)
(***************************************************************************)
CACHE_EXPIRY == 3600000      \* CONFIG.CACHE_EXPIRY, ms
MaxEntries == 2              \* maxEntries of enforceCacheLimit (1000), scaled down
MaxSets == 4                 \* set calls in one behaviour
MaxGets == 1                 \* get calls in one behaviour
MaxTicks == 2                \* clock steps in one behaviour

CacheTexts == {<<97>>, <<65, 32>>, <<98>>, <<99>>, <<100>>}   \* "a", "A ", "b", "c", "d"
SourceLangs == {"en"}
TargetLangs == {"fr"}
\* the result stored for a text: a completed translation that quotes it
resultFor(text) == [translatedText |-> <<91>> \o text \o <<93>>, status |-> "completed",
                    detectedLanguage |-> "en"]
TickSizes == {CACHE_EXPIRY}

Null == [translatedText |-> <<>>, status |-> "null", detectedLanguage |-> ""]

\* generateCacheKey: `${sourceLang}:${targetLang}:${hashString(text.trim().toLowerCase())}`
generateCacheKey(text, sourceLang, targetLang) ==
  <<sourceLang, targetLang, hashString(toLowerCase(trim(text)))>>

\* texts whose keys meet: 31 * 97 + 110 = 31 * 99 + 48; "an", "AN " and "c0"
CollidingTexts == {<<97, 110>>, <<65, 78, 32>>, <<99, 48>>}

CacheKeys ==
  {generateCacheKey(t, sl, tl) :
     t \in CacheTexts \cup CollidingTexts, sl \in SourceLangs, tl \in TargetLangs}

\* isExpired: Date.now() - entry.timestamp > CONFIG.CACHE_EXPIRY
isExpired_reversed(entry, t) == t - entry.timestamp < CACHE_EXPIRY
isExpired(entry, t) == t - entry.timestamp > CACHE_EXPIRY

\* position of key in the Map, 0 when it has none
indexOfKey(cache, key) ==
  IF \E i \in 1..Len(cache) : cache[i].key = key
  THEN CHOOSE i \in 1..Len(cache) : cache[i].key = key
  ELSE 0

\* Map.delete(key)
mapDelete(cache, key) ==
  LET keep == {i \in 1..Len(cache) : cache[i].key # key}
      RECURSIVE pick(_)
      pick(i) == IF i > Len(cache) THEN <<>>
                 ELSE (IF i \in keep THEN <<cache[i]>> ELSE <<>>) \o pick(i + 1)
  IN pick(1)

\* Map.set(key, entry): an existing key keeps its place
mapSet(cache, entry) ==
  LET i == indexOfKey(cache, entry.key)
  IN IF i = 0 THEN Append(cache, entry) ELSE [cache EXCEPT ![i] = entry]

\* what get returns
getResult(cache, key, t) ==
  LET i == indexOfKey(cache, key)
  IN IF i = 0 THEN Null
     ELSE IF isExpired(cache[i], t) THEN Null
     ELSE cache[i].result

\* has(text, sourceLang, targetLang): entry !== undefined && !this.isExpired(entry)
has(cache, key, t) ==
  LET i == indexOfKey(cache, key)
  IN i # 0 /\ ~isExpired(cache[i], t)

\* the entry get leaves behind on a hit: accessCount++, lastAccessed = Date.now()
touchEntry_keepLastAccessed(entry, t) == [entry EXCEPT !.accessCount = @ + 1]
touchEntry(entry, t) == [entry EXCEPT !.accessCount = @ + 1, !.lastAccessed = t]

\* the Map after get
cacheAfterGet(cache, key, t) ==
  LET i == indexOfKey(cache, key)
  IN IF i = 0 THEN cache
     ELSE IF isExpired(cache[i], t) THEN mapDelete(cache, key)
     ELSE [cache EXCEPT ![i] = touchEntry(cache[i], t)]

\* the counters after get
statsAfterGet(stats, cache, key, t) ==
  IF getResult(cache, key, t) = Null
  THEN [stats EXCEPT !.misses = @ + 1]
  ELSE [stats EXCEPT !.hits = @ + 1]

\* the comparator of enforceCacheLimit: a.lastAccessed - b.lastAccessed
compareLastAccessed_descending(a, b) == b.lastAccessed - a.lastAccessed
compareLastAccessed(a, b) == a.lastAccessed - b.lastAccessed

RECURSIVE insertByAccess(_, _)
insertByAccess(s, x) ==
  IF s = <<>> THEN <<x>>
  ELSE IF compareLastAccessed(Head(s), x) <= 0
       THEN <<Head(s)>> \o insertByAccess(Tail(s), x)
       ELSE <<x>> \o s

\* Array.from(memoryCache.entries()).sort(...): stable
RECURSIVE sortByAccess(_)
sortByAccess(c) ==
  IF c = <<>> THEN <<>>
  ELSE insertByAccess(sortByAccess(SubSeq(c, 1, Len(c) - 1)), c[Len(c)])

\* the keys enforceCacheLimit deletes
keysToEvict(cache) ==
  IF Len(cache) <= MaxEntries THEN {}
  ELSE LET entries == sortByAccess(cache)
       IN {entries[i].key : i \in 1..(Len(cache) - MaxEntries)}

\* enforceCacheLimit
enforceCacheLimit(cache) ==
  LET gone == keysToEvict(cache)
      RECURSIVE pick(_)
      pick(i) == IF i > Len(cache) THEN <<>>
                 ELSE (IF cache[i].key \in gone THEN <<>> ELSE <<cache[i]>>) \o pick(i + 1)
  IN pick(1)

\* the entry set builds
newEntry(key, result, t) ==
  [key |-> key, result |-> result, timestamp |-> t, accessCount |-> 1, lastAccessed |-> t]

\* the Map after set
cacheAfterSet(cache, key, result, t) ==
  Only({enforceCacheLimit(c) : c \in {mapSet(cache, newEntry(key, result, t))}})

\* the Map after cleanup
RECURSIVE cacheAfterCleanup(_, _)
cacheAfterCleanup(cache, t) ==
  IF cache = <<>> THEN <<>>
  ELSE (IF isExpired(Head(cache), t) THEN <<>> ELSE <<Head(cache)>>)
       \o cacheAfterCleanup(Tail(cache), t)

\* getStats, without the memory estimate; hitRate in hundredths
getStats ==
  LET totalRequests == cacheStats.hits + cacheStats.misses
  IN [totalEntries |-> Len(memoryCache),
      hitRate |-> IF totalRequests > 0
                  THEN (200 * cacheStats.hits + totalRequests) \div (2 * totalRequests)
                  ELSE 0,
      totalHits |-> cacheStats.hits,
      totalMisses |-> cacheStats.misses]

\* ---- persistence: LocalStorageManager under STORAGE_KEYS.CACHE ----
\* set saves when memoryCache.size % 10 === 0
SavePeriod == 10
NoData == <<>>

\* saveCacheToStorage: the non-expired entries go to LocalStorageManager.set,
\* which rethrows a failure of chrome.storage.local; the catch of
\* saveCacheToStorage logs it.  The result is the store afterwards.
saveCacheToStorage(store, cache, t, rejects) ==
  IF rejects THEN [store EXCEPT !.failed = TRUE]
  ELSE [store EXCEPT !.data = cacheAfterCleanup(cache, t)]

\* LocalStorageManager.get: a failure of chrome.storage.local is logged and
\* null is returned; an empty value (result[key] || null) is null as well
LocalStorageManager_get(store, rejects) == IF rejects THEN NoData ELSE store.data

\* the loop of loadCacheFromStorage: every non-expired stored entry is set
RECURSIVE loadEntries(_, _, _)
loadEntries(cache, cachedData, t) ==
  IF cachedData = <<>> THEN cache
  ELSE loadEntries(IF isExpired(Head(cachedData), t) THEN cache
                   ELSE mapSet(cache, Head(cachedData)),
                   Tail(cachedData), t)

\* what an earlier session may have left in the store
StoredData == {NoData,
               <<newEntry(generateCacheKey(<<97>>, "en", "fr"), resultFor(<<97>>), 0)>>}

InitStorage ==
  localStorage = [data |-> NoData, loaded |-> FALSE, failed |-> FALSE, threw |-> FALSE]

NoOp == [op |-> "none", text |-> <<>>, sourceLang |-> "", targetLang |-> "",
         result |-> Null]

InitCache ==
  /\ memoryCache = <<>>
  /\ cacheStats = [hits |-> 0, misses |-> 0]
  /\ now = 0
  /\ cacheOps = [sets |-> 0, gets |-> 0, ticks |-> 0]
  /\ lastOp = NoOp
  /\ lastSetAt = [k \in CacheKeys |-> 0 - 1]
  /\ lastAccessAt = [k \in CacheKeys |-> 0 - 1]
  /\ evictedKeys = {}
  /\ insertedKeys = {}
  /\ disturbed = FALSE

\* await cacheManager.get(text, sourceLang, targetLang)
cacheGet(text, sl, tl) ==
  /\ cacheOps.gets < MaxGets
  /\ LET key == generateCacheKey(text, sl, tl)
         i == indexOfKey(memoryCache, key)
     IN /\ memoryCache' = cacheAfterGet(memoryCache, key, now)
        /\ cacheStats' = statsAfterGet(cacheStats, memoryCache, key, now)
        /\ disturbed' = (disturbed \/ (i # 0 /\ Len(memoryCache') < Len(memoryCache)))
        /\ lastOp' = [op |-> "get", text |-> text, sourceLang |-> sl, targetLang |-> tl,
                      result |-> getResult(memoryCache, key, now)]
        /\ lastAccessAt' = IF getResult(memoryCache, key, now) = Null THEN lastAccessAt
                           ELSE [lastAccessAt EXCEPT ![key] = now]
  /\ cacheOps' = [cacheOps EXCEPT !.gets = @ + 1]
  /\ UNCHANGED <<now, lastSetAt, evictedKeys, insertedKeys>>
  /\ UNCHANGED queueVars
  /\ UNCHANGED batchVars
  /\ UNCHANGED domVars
  /\ UNCHANGED errorVars
  /\ UNCHANGED callbackVars
  /\ UNCHANGED concurrentVars
  /\ UNCHANGED realtimeVars
  /\ UNCHANGED recreateVars
  /\ UNCHANGED debounceVars
  /\ UNCHANGED selectionVars
  /\ UNCHANGED priorityVars
  /\ UNCHANGED removalVars
  /\ UNCHANGED pageVars
  /\ UNCHANGED storageVars

\* await cacheManager.set(text, sourceLang, targetLang, result)
cacheSet(text, sl, tl, result) ==
  /\ cacheOps.sets < MaxSets
  /\ LET key == generateCacheKey(text, sl, tl)
         c1 == mapSet(memoryCache, newEntry(key, result, now))
         gone == keysToEvict(c1)
     IN /\ memoryCache' = cacheAfterSet(memoryCache, key, result, now)
        /\ evictedKeys' = evictedKeys \cup gone
        /\ lastAccessAt' = [lastAccessAt EXCEPT ![key] = now]
        /\ insertedKeys' = insertedKeys \cup {key}
        /\ disturbed' = (disturbed \/ key \in insertedKeys)
        /\ lastSetAt' = [lastSetAt EXCEPT ![key] = now]
        /\ lastOp' = [op |-> "set", text |-> text, sourceLang |-> sl, targetLang |-> tl,
                      result |-> result]
  /\ cacheOps' = [cacheOps EXCEPT !.sets = @ + 1]
  /\ IF Len(memoryCache') % SavePeriod = 0
     THEN \E rejects \in BOOLEAN :
            localStorage' = saveCacheToStorage(localStorage, memoryCache', now, rejects)
     ELSE UNCHANGED localStorage
  /\ UNCHANGED <<cacheStats, now>>
  /\ UNCHANGED queueVars
  /\ UNCHANGED batchVars
  /\ UNCHANGED domVars
  /\ UNCHANGED errorVars
  /\ UNCHANGED callbackVars
  /\ UNCHANGED concurrentVars
  /\ UNCHANGED realtimeVars
  /\ UNCHANGED recreateVars
  /\ UNCHANGED debounceVars
  /\ UNCHANGED selectionVars
  /\ UNCHANGED priorityVars
  /\ UNCHANGED removalVars
  /\ UNCHANGED pageVars

\* the cleanup timer: cleanup()
cacheCleanup(rejects) ==
  /\ \E i \in 1..Len(memoryCache) : isExpired(memoryCache[i], now)
  /\ memoryCache' = cacheAfterCleanup(memoryCache, now)
  /\ localStorage' = saveCacheToStorage(localStorage, memoryCache', now, rejects)
  /\ disturbed' = TRUE
  /\ lastOp' = [NoOp EXCEPT !.op = "cleanup"]
  /\ UNCHANGED <<cacheStats, now, cacheOps, lastSetAt, lastAccessAt, evictedKeys, insertedKeys>>
  /\ UNCHANGED queueVars
  /\ UNCHANGED batchVars
  /\ UNCHANGED domVars
  /\ UNCHANGED errorVars
  /\ UNCHANGED callbackVars
  /\ UNCHANGED concurrentVars
  /\ UNCHANGED realtimeVars
  /\ UNCHANGED recreateVars
  /\ UNCHANGED debounceVars
  /\ UNCHANGED selectionVars
  /\ UNCHANGED priorityVars
  /\ UNCHANGED removalVars
  /\ UNCHANGED pageVars

\* await cacheManager.clear(): the Map and the counters are reset, then
\* LocalStorageManager.remove is awaited outside any try, so that its
\* rethrown failure rejects clear
cacheClear(rejects) ==
  /\ memoryCache # <<>> \/ cacheStats # [hits |-> 0, misses |-> 0] \/ localStorage.data # NoData
  /\ memoryCache' = <<>>
  /\ cacheStats' = [hits |-> 0, misses |-> 0]
  /\ localStorage' = IF rejects THEN [localStorage EXCEPT !.failed = TRUE, !.threw = TRUE]
                      ELSE [localStorage EXCEPT !.data = NoData]
  /\ disturbed' = TRUE
  /\ lastOp' = [NoOp EXCEPT !.op = "clear"]
  /\ UNCHANGED <<now, cacheOps, lastSetAt, lastAccessAt, evictedKeys, insertedKeys>>
  /\ UNCHANGED queueVars
  /\ UNCHANGED batchVars
  /\ UNCHANGED domVars
  /\ UNCHANGED errorVars
  /\ UNCHANGED callbackVars
  /\ UNCHANGED concurrentVars
  /\ UNCHANGED realtimeVars
  /\ UNCHANGED recreateVars
  /\ UNCHANGED debounceVars
  /\ UNCHANGED selectionVars
  /\ UNCHANGED priorityVars
  /\ UNCHANGED removalVars
  /\ UNCHANGED pageVars

\* the constructor's loadCacheFromStorage(), when its read of the store
\* returns; stored is what an earlier session left there
loadCacheFromStorage(stored, rejects) ==
  /\ ~localStorage.loaded
  /\ LET before == IF localStorage.data = NoData THEN [localStorage EXCEPT !.data = stored]
                   ELSE localStorage
         cachedData == LocalStorageManager_get(before, rejects)
     IN /\ memoryCache' = loadEntries(memoryCache, cachedData, now)
        /\ localStorage' = [before EXCEPT !.loaded = TRUE, !.failed = @ \/ rejects]
  /\ disturbed' = (disturbed \/ memoryCache' # memoryCache)
  /\ lastOp' = [NoOp EXCEPT !.op = "load"]
  /\ UNCHANGED <<cacheStats, now, cacheOps, lastSetAt, lastAccessAt, evictedKeys, insertedKeys>>
  /\ UNCHANGED queueVars
  /\ UNCHANGED batchVars
  /\ UNCHANGED domVars
  /\ UNCHANGED errorVars
  /\ UNCHANGED callbackVars
  /\ UNCHANGED concurrentVars
  /\ UNCHANGED realtimeVars
  /\ UNCHANGED recreateVars
  /\ UNCHANGED debounceVars
  /\ UNCHANGED selectionVars
  /\ UNCHANGED priorityVars
  /\ UNCHANGED removalVars
  /\ UNCHANGED pageVars

\* time passes
tick(d) ==
  /\ cacheOps.ticks < MaxTicks
  /\ now' = now + d
  /\ cacheOps' = [cacheOps EXCEPT !.ticks = @ + 1]
  /\ lastOp' = NoOp
  /\ UNCHANGED <<memoryCache, cacheStats, lastSetAt, lastAccessAt, evictedKeys, insertedKeys,
                 disturbed>>
  /\ UNCHANGED queueVars
  /\ UNCHANGED batchVars
  /\ UNCHANGED domVars
  /\ UNCHANGED errorVars
  /\ UNCHANGED callbackVars
  /\ UNCHANGED concurrentVars
  /\ UNCHANGED realtimeVars
  /\ UNCHANGED recreateVars
  /\ UNCHANGED debounceVars
  /\ UNCHANGED selectionVars
  /\ UNCHANGED priorityVars
  /\ UNCHANGED removalVars
  /\ UNCHANGED pageVars
  /\ UNCHANGED storageVars

NextCache ==
  \/ \E t \in CacheTexts, sl \in SourceLangs, tl \in TargetLangs : cacheGet(t, sl, tl)
  \/ \E t \in CacheTexts, sl \in SourceLangs, tl \in TargetLangs :
       cacheSet(t, sl, tl, resultFor(t))
  \/ \E rejects \in BOOLEAN : cacheCleanup(rejects)
  \/ \E d \in TickSizes : tick(d)

\* the cache with its persistent store: the operations above on two texts,
\* clear, and the load the constructor starts
StorageTexts == {<<97>>, <<98>>}

NextStorage ==
  \/ \E t \in StorageTexts : cacheGet(t, "en", "fr")
  \/ \E t \in StorageTexts : cacheSet(t, "en", "fr", resultFor(t))
  \/ \E rejects \in BOOLEAN : cacheCleanup(rejects)
  \/ \E rejects \in BOOLEAN : cacheClear(rejects)
  \/ \E stored \in StoredData, rejects \in BOOLEAN : loadCacheFromStorage(stored, rejects)
  \/ \E d \in TickSizes : tick(d)

\* a translation of the text that an earlier session stored
storedResultFor(text) == [translatedText |-> <<40>> \o text \o <<41>>, status |-> "completed",
                          detectedLanguage |-> "en"]

storedEntry(text) == newEntry(generateCacheKey(text, "en", "fr"), storedResultFor(text), 0)

\* stores of an earlier session: one entry for a text that is set again in
\* this session, alone or with an entry for another text
EarlierSessions == {<<storedEntry(<<97>>)>>, <<storedEntry(<<97>>), storedEntry(<<99>>)>>}

\* the constructor's load racing with get and set
NextLoad ==
  \/ \E t \in StorageTexts : cacheGet(t, "en", "fr")
  \/ \E t \in StorageTexts : cacheSet(t, "en", "fr", resultFor(t))
  \/ \E stored \in EarlierSessions : loadCacheFromStorage(stored, FALSE)
  \/ \E d \in TickSizes : tick(d)

\* the cache asked for texts whose hashes are equal
NextCollision ==
  \/ \E t \in CollidingTexts : cacheGet(t, "en", "fr")
  \/ \E t \in CollidingTexts : cacheSet(t, "en", "fr", resultFor(t))
  \/ \E d \in TickSizes : tick(d)

(***************************************************************************)
(* TranslationService.translate and BatchTranslationManager                *)
(***************************************************************************)
MaxBatches == 2              \* translateBatch calls in one behaviour
MaxBatchLen == 2             \* texts in one batch
MaxSingles == 1              \* single-text translate requests beside the batches
MaxRequests == 2             \* requests answered by translate itself, without batches
MAX_TEXT_LENGTH == 5000      \* CONFIG.MAX_TEXT_LENGTH
RETRY_ATTEMPTS == 3          \* CONFIG.RETRY_ATTEMPTS

BatchTexts == {<<97>>, <<66>>}          \* "a", "B"
FailBudgets == {0, 1}        \* failures the capability answers a text with before it succeeds
InvalidTexts == {<<32>>}                 \* " ", whitespace only
RequestTexts == BatchTexts \cup InvalidTexts
BatchInputs == UNION {[1..n -> RequestTexts] : n \in 0..MaxBatchLen}
BatchSourceLang == "en"
BatchTargetLang == "fr"

\* what the external translator returns for a text
capabilityTranslate(text) == <<91>> \o text \o <<93>>

\* the result translate builds after translator.translate(text) returned
translationResult(text, sourceLang) ==
  [translatedText |-> capabilityTranslate(text), status |-> "completed",
   detectedLanguage |-> sourceLang]

\* results[i] = {translatedText: '', status: PENDING}
Pending == [translatedText |-> <<>>, status |-> "pending", detectedLanguage |-> ""]

\* the error result of processTranslationItem's catch block
errorResult_pending(sourceLang) ==
  [translatedText |-> <<>>, status |-> "pending", detectedLanguage |-> sourceLang]
errorResult(sourceLang) ==
  [translatedText |-> <<>>, status |-> "error", detectedLanguage |-> sourceLang]

\* validateTextLength: the error it returns, "null" for none
validateTextLength(text) ==
  IF Len(trim(text)) = 0 THEN "INVALID_LANGUAGE"
  ELSE IF Len(text) > MAX_TEXT_LENGTH THEN "TEXT_TOO_LONG"
  ELSE "null"

\* Math.round((completed / total) * 100)
percentageOf(completed, total) == (200 * completed + total) \div (2 * total)

\* the test that resolves the promise of processTextsWithQueue
allProcessed_never(completedCount, totalToProcess) == completedCount > totalToProcess
allProcessed(completedCount, totalToProcess) == completedCount >= totalToProcess

\* isImportantContent
isImportantContent(text) ==
  LET trimmed == trim(text)
  IN \/ Len(trimmed) < 100 /\ Len(trimmed) > 5
     \/ trimmed = toUpperCase(trimmed) /\ Len(trimmed) < 50

\* calculateTextPriority(text, index)
calculateTextPriority(text, index) ==
  (IF Len(text) < 100 THEN 3 ELSE IF Len(text) < 500 THEN 2 ELSE 1)
  + Max(0, 10 - (index \div 10))
  + (IF isImportantContent(text) THEN 5 ELSE 0)

InitPriority == computed = <<>>

\* const priority = this.calculateTextPriority(text, i) of translateBatch's
\* miss branch, for one text and one index; the last two calls are kept
computePriority(text, index) ==
  /\ computed' = (IF computed = <<>> THEN <<>> ELSE <<computed[Len(computed)]>>)
                   \o <<[text |-> text, index |-> index,
                         priority |-> calculateTextPriority(text, index)]>>
  /\ UNCHANGED <<queueVars, cacheVars, batchVars, domVars, errorVars, storageVars,
                 pageVars, removalVars, selectionVars, debounceVars, recreateVars, realtimeVars, concurrentVars, callbackVars>>

\* texts of 3, 6, 10, 120 and 600 lower-case letters and one of 3 capitals
lettersOf(n) == [i \in 1..n |-> 97 + (i % 26)]
PriorityTexts == {lettersOf(3), lettersOf(6), lettersOf(10), lettersOf(120), lettersOf(600),
                  <<65, 66, 67>>}

\* positions of a miss in the texts of a batch
PriorityIndexes == {0, 9, 10, 55, 99, 100, 150}

NextPriority == \E text \in PriorityTexts, index \in PriorityIndexes : computePriority(text, index)

\* the key of processingQueue: `${sourceLang}:${targetLang}:${text}`
processingKey(d) == <<d.sourceLang, d.targetLang, d.text>>

\* the id addToQueue is given: `${batchId}_${index}`
itemId(batchId, index) == batchId * (MaxBatchLen + 1) + index + 1

NewBatch == [state |-> "idle", texts |-> <<>>, results |-> <<>>, completed |-> 0,
             percentage |-> 0, completedCount |-> 0, totalToProcess |-> 0,
             aborted |-> FALSE, queuedAtCancel |-> {}, runningAtCancel |-> {}]

\* a request answered by translate itself: its arguments, where it stands,
\* how the language detection went ("none" if it was not asked), whether
\* Translator.create was called and with which sourceLanguage
NewSingle == [state |-> "idle", text |-> <<>>, sourceLang |-> "", result |-> Null,
              detection |-> "none", called |-> FALSE, sourceLanguage |-> ""]

InitBatch ==
  /\ batch = [b \in 1..MaxBatches |-> NewBatch]
  /\ progressLog = [b \in 1..MaxBatches |-> <<>>]
  /\ unitOutcome = [b \in 1..MaxBatches |-> <<>>]
  /\ phase = "idle"
  /\ processingQueue = {}
  /\ isApiAvailable = "null"
  /\ apiPresent = "unknown"
  /\ failBudget = [t \in BatchTexts |-> 0]
  /\ singles = [s \in 1..MaxRequests |-> NewSingle]
  /\ callsStarted = [t \in BatchTexts |-> 0]

\* the browser the extension runs in: whether it has the Translator API, and
\* how often its translator fails each text before translating it
environment(found, budget) ==
  /\ apiPresent = "unknown"
  /\ apiPresent' = found
  /\ failBudget' = budget
  /\ UNCHANGED <<batch, phase, processingQueue, isApiAvailable, singles, progressLog,
                 unitOutcome, callsStarted>>
  /\ UNCHANGED queueVars
  /\ UNCHANGED cacheVars
  /\ UNCHANGED domVars
  /\ UNCHANGED errorVars
  /\ UNCHANGED callbackVars
  /\ UNCHANGED concurrentVars
  /\ UNCHANGED realtimeVars
  /\ UNCHANGED recreateVars
  /\ UNCHANGED debounceVars
  /\ UNCHANGED selectionVars
  /\ UNCHANGED priorityVars
  /\ UNCHANGED removalVars
  /\ UNCHANGED pageVars
  /\ UNCHANGED storageVars

\* the objects a step of the background page works on
backgroundState ==
  [queue |-> queue, current |-> current, processing |-> processing, phase |-> phase,
   processingQueue |-> processingQueue, memoryCache |-> memoryCache,
   cacheStats |-> cacheStats, isApiAvailable |-> isApiAvailable, batch |-> batch,
   progressLog |-> progressLog, unitOutcome |-> unitOutcome,
   callsStarted |-> callsStarted]

\* the step leaves the objects as `after` has them
becomes(after) ==
  \E S \in {after} :
    /\ queue' = S.queue
    /\ current' = S.current
    /\ processing' = S.processing
    /\ phase' = S.phase
    /\ processingQueue' = S.processingQueue
    /\ memoryCache' = S.memoryCache
    /\ cacheStats' = S.cacheStats
    /\ isApiAvailable' = S.isApiAvailable
    /\ batch' = S.batch
    /\ progressLog' = S.progressLog
    /\ unitOutcome' = S.unitOutcome
    /\ callsStarted' = S.callsStarted

\* translate up to its first call of the capability: validation, cache
\* lookup, availability check.  kind says how it goes on: "throw" (rejected),
\* "hit" (returns result), "detect" (the source language is unset or 'auto':
\* detectLanguage is awaited) or "call" (Translator.create is awaited)
translateBegins(before, text, sourceLang, targetLang) ==
  Only({
      IF validateTextLength(text) # "null"
      THEN [kind |-> "throw", result |-> Null, S |-> S]
      ELSE LET cached == getResult(S.memoryCache, key, now)
               S1 == [S EXCEPT !.memoryCache = cacheAfterGet(S.memoryCache, key, now),
                               !.cacheStats = statsAfterGet(S.cacheStats, S.memoryCache, key, now)]
               available == IF S.isApiAvailable = "null" THEN apiPresent ELSE S.isApiAvailable
               S2 == [S1 EXCEPT !.isApiAvailable = available]
           IN IF cached # Null THEN [kind |-> "hit", result |-> cached, S |-> S1]
              ELSE IF available = "false" THEN [kind |-> "throw", result |-> Null, S |-> S2]
              ELSE IF sourceLang = "" \/ sourceLang = "auto"
              THEN [kind |-> "detect", result |-> Null, S |-> S2]
              ELSE [kind |-> "call", result |-> Null,
                    S |-> [S2 EXCEPT !.callsStarted[text] = @ + 1]]
    : S \in {before}, key \in {generateCacheKey(text, sourceLang, targetLang)}})

\* the rest of translate after translator.translate(text) returned:
\* cacheManager.set(text, sourceLang, targetLang, result)
translateCompletes(S, text, sourceLang, targetLang) ==
  Only({[S EXCEPT !.memoryCache =
           cacheAfterSet(S.memoryCache, key, translationResult(text, sourceLang), now)]
        : key \in {generateCacheKey(text, sourceLang, targetLang)}})

\* onResult(result, index) of processTextsWithQueue for batch b; index from 0
onResult(before, b, index, result) ==
  Only({
      IF S.batch[b].aborted THEN S
      ELSE LET B == S.batch[b]
               completed == B.completed + 1
               percentage == percentageOf(completed, Len(B.texts))
               completedCount == B.completedCount + 1
           IN [S EXCEPT
                 !.batch[b] = [B EXCEPT !.results[index + 1] = result,
                                        !.completed = completed,
                                        !.percentage = percentage,
                                        !.completedCount = completedCount,
                                        !.state = IF allProcessed(completedCount, B.totalToProcess)
                                                  THEN "resolved" ELSE @],
                 !.progressLog[b] = Append(@, [completed |-> completed,
                                               percentage |-> percentage])]
    : S \in {before}})

\* processQueue's loop from its head, processTranslationItem for the item it
\* shifts, and everything that follows without waiting for the capability
RECURSIVE loopHead(_)
RECURSIVE beginItem(_)
RECURSIVE settle(_, _)

\* while (queue.length > 0) { const item = queue.shift(); ... }
\* this.processingQueues.delete(name)
loopHead(before) ==
  Only({
      IF S.queue = <<>>
      THEN [S EXCEPT !.current = NoItem, !.processing = FALSE, !.phase = "idle"]
      ELSE beginItem([S EXCEPT !.current = Head(S.queue), !.queue = Tail(S.queue),
                               !.processing = TRUE, !.phase = "begun"])
    : S \in {before}})

\* processTranslationItem(item.data) up to the capability call.  A rejected
\* translate goes to the catch block: handleError is given no retry callback
\* and returns the parsed error, then onResult gets the error result
\* (the items of a batch carry the source language the batch was requested
\* with, so that translate does not ask for a detection)
beginItem(before) ==
  Only({
      LET d == S.current.data
      IN IF processingKey(d) \in S.processingQueue
         THEN [S EXCEPT !.phase = "joined"]
         ELSE Only({
                IF o.kind = "call"
                THEN [o.S EXCEPT !.phase = "calling",
                                 !.processingQueue = @ \cup {processingKey(d)}]
                ELSE IF o.kind = "detect"
                THEN [o.S EXCEPT !.phase = "detecting",
                                 !.processingQueue = @ \cup {processingKey(d)}]
                ELSE IF o.kind = "hit"
                THEN settle(o.S, o.result)
                ELSE settle([o.S EXCEPT !.unitOutcome[d.batchId][d.index + 1] = "rejected"],
                            errorResult(d.sourceLang))
              : o \in {translateBegins(S, d.text, d.sourceLang, d.targetLang)}})
    : S \in {before}})

\* onResult(result, index); the processor's promise resolves and the loop goes on
settle_caching(before, result) ==
  Only({
      LET d == S.current.data
          cached == [S EXCEPT !.memoryCache =
                       cacheAfterSet(S.memoryCache,
                                     generateCacheKey(d.text, d.sourceLang, d.targetLang),
                                     result, now)]
      IN loopHead(onResult(cached, d.batchId, d.index, result))
    : S \in {before}})
settle(before, result) ==
  Only({
      LET d == S.current.data
      IN loopHead(onResult(S, d.batchId, d.index, result))
    : S \in {before}})

\* this.debounceManager.addToQueue('translation_batch', data, {priority,
\* maxRetries, id}); on an idle queue processQueue shifts the item at once
enqueue(S, data, priority) ==
  LET item == newItem(itemId(data.batchId, data.index), data, priority, RETRY_ATTEMPTS)
      q1 == pushSorted(S.queue, item)
  IN IF S.processing
     THEN [S EXCEPT !.queue = q1]
     ELSE [S EXCEPT !.current = Head(q1), !.queue = Tail(q1), !.processing = TRUE,
                    !.phase = "begun"]

\* the cache loop of translateBatch from text i on (i from 0): hits go to
\* results, misses to textsToTranslate
RECURSIVE lookupAll(_, _, _, _)
lookupAll(S, b, i, textsToTranslate) ==
  LET texts == S.batch[b].texts
  IN IF i >= Len(texts) THEN [S |-> S, textsToTranslate |-> textsToTranslate]
     ELSE LET text == texts[i + 1]
              key == generateCacheKey(text, BatchSourceLang, BatchTargetLang)
              cachedResult == getResult(S.memoryCache, key, now)
              S1 == [S EXCEPT
                       !.memoryCache = cacheAfterGet(S.memoryCache, key, now),
                       !.cacheStats = statsAfterGet(S.cacheStats, S.memoryCache, key, now)]
          IN IF cachedResult # Null
             THEN lookupAll([S1 EXCEPT !.batch[b].results[i + 1] = cachedResult,
                                       !.batch[b].completed = @ + 1],
                            b, i + 1, textsToTranslate)
             ELSE lookupAll(S1, b, i + 1,
                            Append(textsToTranslate,
                                   [text |-> text, index |-> i,
                                    priority |-> calculateTextPriority(text, i)]))

\* the for loop of processTextsWithQueue from entry k on
RECURSIVE enqueueAll(_, _, _, _)
enqueueAll(S, b, textsToTranslate, k) ==
  IF k > Len(textsToTranslate) THEN S
  ELSE enqueueAll(enqueue(S, [text |-> textsToTranslate[k].text,
                              sourceLang |-> BatchSourceLang,
                              targetLang |-> BatchTargetLang,
                              batchId |-> b,
                              index |-> textsToTranslate[k].index],
                          textsToTranslate[k].priority),
                  b, textsToTranslate, k + 1)

\* translateBatch(texts, sourceLang, targetLang, onProgress) until it waits
\* for the capability or returns
translateBatch(b, texts) ==
  /\ apiPresent # "unknown"
  /\ batch[b].state = "idle"
  /\ \A c \in 1..(b - 1) : batch[c].state # "idle"
  /\ IF Len(texts) = 0
     THEN becomes([backgroundState EXCEPT !.batch[b].state = "resolved"])
     ELSE LET S0 == [backgroundState EXCEPT
                       !.batch[b] = [NewBatch EXCEPT
                                       !.state = "running",
                                       !.texts = texts,
                                       !.results = [i \in 1..Len(texts) |-> Pending]],
                       !.unitOutcome[b] = [i \in 1..Len(texts) |-> "none"]]
              L == lookupAll(S0, b, 0, <<>>)
              cacheHits == L.S.batch[b].completed
              percentage == percentageOf(cacheHits, Len(texts))
              S1 == IF cacheHits > 0
                    THEN [L.S EXCEPT
                            !.batch[b].percentage = percentage,
                            !.progressLog[b] = Append(@, [completed |-> cacheHits,
                                                          percentage |-> percentage])]
                    ELSE L.S
              S2 == IF Len(L.textsToTranslate) > 0
                    THEN [S1 EXCEPT !.batch[b].totalToProcess = Len(L.textsToTranslate)]
                    ELSE [S1 EXCEPT !.batch[b].state = "resolved"]
              S3 == enqueueAll(S2, b, L.textsToTranslate, 1)
          IN becomes(IF S3.phase = "begun" THEN beginItem(S3) ELSE S3)
  /\ UNCHANGED <<apiPresent, failBudget, singles>>
  /\ UNCHANGED <<nextId, submitted, maxR, firstStarts, lastStart, execs, fails, retries,
                 outcome, addAfterSettle>>
  /\ UNCHANGED <<now, cacheOps, lastOp, lastSetAt, lastAccessAt, evictedKeys, insertedKeys,
                 disturbed>>
  /\ UNCHANGED domVars
  /\ UNCHANGED errorVars
  /\ UNCHANGED callbackVars
  /\ UNCHANGED concurrentVars
  /\ UNCHANGED realtimeVars
  /\ UNCHANGED recreateVars
  /\ UNCHANGED debounceVars
  /\ UNCHANGED selectionVars
  /\ UNCHANGED priorityVars
  /\ UNCHANGED removalVars
  /\ UNCHANGED pageVars
  /\ UNCHANGED storageVars

\* the capability answers the call made for the queue item being processed
capabilityReturnsItem ==
  /\ phase = "calling"
  /\ LET d == current.data
         S0 == [backgroundState EXCEPT !.processingQueue = @ \ {processingKey(d)}]
     IN IF failBudget[d.text] > 0
        THEN /\ failBudget' = [failBudget EXCEPT ![d.text] = @ - 1]
             /\ becomes(settle([S0 EXCEPT !.unitOutcome[d.batchId][d.index + 1] =
                                   IF failBudget[d.text] = 1 THEN "transient"
                                   ELSE "failing"],
                                errorResult(d.sourceLang)))
        ELSE /\ UNCHANGED failBudget
             /\ becomes(settle(translateCompletes(S0, d.text, d.sourceLang, d.targetLang),
                               translationResult(d.text, d.sourceLang)))
  /\ UNCHANGED <<apiPresent, singles>>
  /\ UNCHANGED <<nextId, submitted, maxR, firstStarts, lastStart, execs, fails, retries,
                 outcome, addAfterSettle>>
  /\ UNCHANGED <<now, cacheOps, lastOp, lastSetAt, lastAccessAt, evictedKeys, insertedKeys,
                 disturbed>>
  /\ UNCHANGED domVars
  /\ UNCHANGED errorVars
  /\ UNCHANGED callbackVars
  /\ UNCHANGED concurrentVars
  /\ UNCHANGED realtimeVars
  /\ UNCHANGED recreateVars
  /\ UNCHANGED debounceVars
  /\ UNCHANGED selectionVars
  /\ UNCHANGED priorityVars
  /\ UNCHANGED removalVars
  /\ UNCHANGED pageVars
  /\ UNCHANGED storageVars

\* the indexes of the units of batch b that wait in the queue
queuedUnits(b) ==
  {queue[k].data.index : k \in {j \in 1..Len(queue) : queue[j].data.batchId = b}}

\* the index of the unit of batch b whose capability call is awaited
runningUnits(b) ==
  IF phase = "calling" /\ current.data.batchId = b THEN {current.data.index} ELSE {}

\* cancelTranslation(batchId) for a batch in activeTranslations:
\* controller.abort(); the units waiting or running at that moment are noted
cancelTranslation(b) ==
  /\ batch[b].state = "running"
  /\ ~batch[b].aborted
  /\ batch' = [batch EXCEPT ![b].aborted = TRUE, ![b].queuedAtCancel = queuedUnits(b),
                             ![b].runningAtCancel = runningUnits(b)]
  /\ UNCHANGED <<progressLog, unitOutcome, phase, processingQueue, isApiAvailable,
                 apiPresent, failBudget, singles, callsStarted>>
  /\ UNCHANGED queueVars
  /\ UNCHANGED cacheVars
  /\ UNCHANGED domVars
  /\ UNCHANGED errorVars
  /\ UNCHANGED callbackVars
  /\ UNCHANGED concurrentVars
  /\ UNCHANGED realtimeVars
  /\ UNCHANGED recreateVars
  /\ UNCHANGED debounceVars
  /\ UNCHANGED selectionVars
  /\ UNCHANGED priorityVars
  /\ UNCHANGED removalVars
  /\ UNCHANGED pageVars
  /\ UNCHANGED storageVars

\* the outcomes of the language detection: a language, no result, or an
\* exception of LanguageDetector.create or detector.detect
DetectionOutcomes == {"en", "empty", "fails"}

\* detectLanguage(text) from its try block on, for an answer of the detector:
\* results[0].detectedLanguage, or 'auto' when there is no result, or, in the
\* catch block, handleError(error, 'language_detection') and 'auto'
detectLanguage_rethrows(answer) ==
  IF answer = "fails" THEN [threw |-> TRUE, language |-> ""]
  ELSE [threw |-> FALSE, language |-> IF answer = "empty" THEN "auto" ELSE answer]
detectLanguage(answer) ==
  [threw |-> FALSE, language |-> IF answer \in {"empty", "fails"} THEN "auto" ELSE answer]

\* the request as translate leaves it at its first wait or at its return
requestAfter(o, text, sourceLang) ==
  [NewSingle EXCEPT
     !.state = IF o.kind = "call" THEN "calling"
               ELSE IF o.kind = "detect" THEN "detecting"
               ELSE IF o.kind = "hit" THEN "returned" ELSE "rejected",
     !.text = text,
     !.sourceLang = sourceLang,
     !.result = o.result,
     !.called = (o.kind = "call"),
     !.sourceLanguage = IF o.kind = "call" THEN sourceLang ELSE ""]

\* handleTranslateText: translationService.translate(text, sourceLang,
\* targetLang) until it waits for the capability or returns
translateText(s, text) ==
  /\ apiPresent # "unknown"
  /\ singles[s].state = "idle"
  /\ \A r \in 1..(s - 1) : singles[r].state # "idle"
  /\ LET o == translateBegins(backgroundState, text, BatchSourceLang, BatchTargetLang)
     IN /\ becomes(o.S)
        /\ singles' = [singles EXCEPT ![s] = requestAfter(o, text, BatchSourceLang)]
  /\ UNCHANGED <<apiPresent, failBudget>>
  /\ UNCHANGED <<nextId, submitted, maxR, firstStarts, lastStart, execs, fails, retries,
                 outcome, addAfterSettle>>
  /\ UNCHANGED <<now, cacheOps, lastOp, lastSetAt, lastAccessAt, evictedKeys, insertedKeys,
                 disturbed>>
  /\ UNCHANGED domVars
  /\ UNCHANGED errorVars
  /\ UNCHANGED callbackVars
  /\ UNCHANGED concurrentVars
  /\ UNCHANGED realtimeVars
  /\ UNCHANGED recreateVars
  /\ UNCHANGED debounceVars
  /\ UNCHANGED selectionVars
  /\ UNCHANGED priorityVars
  /\ UNCHANGED removalVars
  /\ UNCHANGED pageVars
  /\ UNCHANGED storageVars

\* handleTranslateSelected: translationService.translate(data.text, 'auto',
\* targetLang) until it waits for the detector or the capability, or returns
translateSelected(s, text) ==
  /\ apiPresent # "unknown"
  /\ singles[s].state = "idle"
  /\ \A r \in 1..(s - 1) : singles[r].state # "idle"
  /\ LET o == translateBegins(backgroundState, text, "auto", BatchTargetLang)
     IN /\ becomes(o.S)
        /\ singles' = [singles EXCEPT ![s] = requestAfter(o, text, "auto")]
  /\ UNCHANGED <<apiPresent, failBudget>>
  /\ UNCHANGED <<nextId, submitted, maxR, firstStarts, lastStart, execs, fails, retries,
                 outcome, addAfterSettle>>
  /\ UNCHANGED <<now, cacheOps, lastOp, lastSetAt, lastAccessAt, evictedKeys, insertedKeys,
                 disturbed>>
  /\ UNCHANGED domVars
  /\ UNCHANGED errorVars
  /\ UNCHANGED callbackVars
  /\ UNCHANGED concurrentVars
  /\ UNCHANGED realtimeVars
  /\ UNCHANGED recreateVars
  /\ UNCHANGED debounceVars
  /\ UNCHANGED selectionVars
  /\ UNCHANGED priorityVars
  /\ UNCHANGED removalVars
  /\ UNCHANGED pageVars
  /\ UNCHANGED storageVars

\* the detector answers request s: detectedSourceLang is what detectLanguage
\* returns, and Translator.create({sourceLanguage: detectedSourceLang, ...})
\* is called; an exception out of detectLanguage would go to the catch block
\* of translate and reject the request
languageDetectionReturns(s, answer) ==
  /\ singles[s].state = "detecting"
  /\ LET detected == detectLanguage(answer)
     IN IF detected.threw
        THEN /\ singles' = [singles EXCEPT ![s].state = "rejected",
                                           ![s].detection = answer]
             /\ UNCHANGED callsStarted
        ELSE /\ singles' = [singles EXCEPT ![s].state = "calling",
                                           ![s].detection = answer,
                                           ![s].called = TRUE,
                                           ![s].sourceLanguage = detected.language]
             /\ callsStarted' = [callsStarted EXCEPT ![singles[s].text] = @ + 1]
  /\ UNCHANGED <<batch, progressLog, unitOutcome, phase, processingQueue, isApiAvailable,
                 apiPresent, failBudget>>
  /\ UNCHANGED queueVars
  /\ UNCHANGED cacheVars
  /\ UNCHANGED domVars
  /\ UNCHANGED errorVars
  /\ UNCHANGED callbackVars
  /\ UNCHANGED concurrentVars
  /\ UNCHANGED realtimeVars
  /\ UNCHANGED recreateVars
  /\ UNCHANGED debounceVars
  /\ UNCHANGED selectionVars
  /\ UNCHANGED priorityVars
  /\ UNCHANGED removalVars
  /\ UNCHANGED pageVars
  /\ UNCHANGED storageVars

\* the capability answers the call made for single-text request s
capabilityReturnsSingle(s) ==
  /\ singles[s].state = "calling"
  /\ LET text == singles[s].text
     IN IF failBudget[text] > 0
        THEN /\ failBudget' = [failBudget EXCEPT ![text] = @ - 1]
             /\ singles' = [singles EXCEPT ![s].state = "rejected"]
             /\ UNCHANGED <<memoryCache>>
        ELSE /\ UNCHANGED failBudget
             /\ singles' = [singles EXCEPT
                              ![s].state = "returned",
                              ![s].result = translationResult(text, singles[s].sourceLanguage)]
             /\ memoryCache' = cacheAfterSet(memoryCache,
                                             generateCacheKey(text, singles[s].sourceLang,
                                                              BatchTargetLang),
                                             translationResult(text, singles[s].sourceLanguage),
                                             now)
  /\ UNCHANGED <<batch, progressLog, unitOutcome, phase, processingQueue, isApiAvailable,
                 apiPresent, callsStarted>>
  /\ UNCHANGED queueVars
  /\ UNCHANGED <<cacheStats, now, cacheOps, lastOp, lastSetAt, lastAccessAt, evictedKeys,
                 insertedKeys, disturbed>>
  /\ UNCHANGED domVars
  /\ UNCHANGED errorVars
  /\ UNCHANGED callbackVars
  /\ UNCHANGED concurrentVars
  /\ UNCHANGED realtimeVars
  /\ UNCHANGED recreateVars
  /\ UNCHANGED debounceVars
  /\ UNCHANGED selectionVars
  /\ UNCHANGED priorityVars
  /\ UNCHANGED removalVars
  /\ UNCHANGED pageVars
  /\ UNCHANGED storageVars

NextBatch ==
  \/ \E found \in {"true", "false"}, budget \in [BatchTexts -> FailBudgets] :
       environment(found, budget)
  \/ \E b \in 1..MaxBatches, texts \in BatchInputs : translateBatch(b, texts)
  \/ capabilityReturnsItem
  \/ \E b \in 1..MaxBatches : cancelTranslation(b)
  \/ \E s \in 1..MaxSingles, text \in BatchTexts : translateText(s, text)
  \/ \E s \in 1..MaxSingles : capabilityReturnsSingle(s)

\* the requests that translate answers itself: TRANSLATE_TEXT and
\* TRANSLATE_SELECTED messages
NextSelected ==
  \/ \E found \in {"true", "false"}, budget \in [BatchTexts -> FailBudgets] :
       environment(found, budget)
  \/ \E s \in 1..MaxRequests, text \in RequestTexts : translateText(s, text)
  \/ \E s \in 1..MaxRequests, text \in RequestTexts : translateSelected(s, text)
  \/ \E s \in 1..MaxRequests, answer \in DetectionOutcomes :
       languageDetectionReturns(s, answer)
  \/ \E s \in 1..MaxRequests : capabilityReturnsSingle(s)

(***************************************************************************)
(* Content script: extraction, apply and restore                           *)
(* Elements are leaves (no child elements), displayed and at least 10px    *)
(* wide and high, without id, class, translate or data-no-translate.       *)
(***************************************************************************)
TextSpaced == <<32, 72, 105, 32, 32, 121, 111, 117>>          \* " Hi  you"
TextPlain == <<72, 101, 108, 108, 111>>                       \* "Hello"
TitleShort == <<72, 105, 33>>                                 \* "Hi!"
TitleLong == <<82, 101, 97, 100, 32, 116, 104, 105, 115, 32, 110, 111, 119>>  \* "Read this now"
AltText == <<65, 32, 99, 97, 116>>                            \* "A cat"
Translations == {<<91, 49, 93>>, <<91, 50, 93>>}              \* "[1]", "[2]"

NoId == <<>>

\* an element with its value slots and the data-* attributes the script sets;
\* textContent is the text of its own text nodes, container the text of a
\* chrome-translation-container span put in their place
element(tagName, textContent, alt, hasTitle, title) ==
  [tagName |-> tagName, textContent |-> textContent, alt |-> alt, placeholder |-> <<>>,
   hasTitle |-> hasTitle, title |-> title,
   translateId |-> NoId, translated |-> FALSE, originalText |-> <<>>,
   processed |-> FALSE, inViewport |-> TRUE, translationId |-> NoId,
   container |-> <<>>]

SampleElements ==
  {element("P", TextPlain, <<>>, FALSE, <<>>),
   element("P", TextSpaced, <<>>, FALSE, <<>>),
   element("P", TextPlain, <<>>, TRUE, TitleShort),
   element("P", TextPlain, <<>>, TRUE, TitleLong),
   element("IMG", <<>>, AltText, FALSE, <<>>)}

\* the documents the script is loaded into: two elements in document order
Pages == {<<a, b>> : a \in SampleElements, b \in SampleElements}

\* s.replace(/\s+/g, ' ')
collapseWhitespace(s) ==
  LET kept == SelectSeq([i \in 1..Len(s) |-> i],
                        LAMBDA i : \/ s[i] \notin Whitespace
                                   \/ i = Len(s)
                                   \/ s[i + 1] \notin Whitespace)
  IN [k \in 1..Len(kept) |-> IF s[kept[k]] \in Whitespace THEN 32 ELSE s[kept[k]]]

\* extractElementText
extractElementText(el) ==
  IF el.tagName = "IMG" THEN el.alt
  ELSE IF el.hasTitle /\ Len(el.title) > 10 THEN el.title
  ELSE IF el.tagName = "INPUT" THEN el.placeholder
  ELSE trim(collapseWhitespace(el.textContent))

excludedTags ==
  {"SCRIPT", "STYLE", "NOSCRIPT", "IFRAME", "OBJECT", "EMBED", "CODE", "PRE", "TEXTAREA",
   "INPUT", "SELECT", "CANVAS", "SVG"}

\* the characters of text matching [a-zA-Z] (the samples have no CJK, kana or Cyrillic)
alphabeticChars(text) == {i \in 1..Len(text) : text[i] \in (65..90) \cup (97..122)}

\* isElementTranslatable
isElementTranslatable(el) ==
  LET text == extractElementText(el)
  IN /\ el.tagName \notin excludedTags
     /\ ~(Len(trim(text)) < 2)
     /\ ~(10 * Cardinality(alphabeticChars(text)) < 3 * Len(text))
     /\ ~(Len(text) < 5 /\ el.tagName \in {"A", "BUTTON"})

\* \W removed from the first 20 characters of the text
textPreview(text) ==
  LET head == SubSeq(text, 1, Min(20, Len(text)))
      RECURSIVE keep(_)
      keep(s) == IF s = <<>> THEN <<>>
                 ELSE (IF Head(s) \in (48..57) \cup (65..90) \cup (97..122) \cup {95}
                       THEN <<Head(s)>> ELSE <<>>) \o keep(Tail(s))
  IN keep(head)

\* generateElementId(element, index): `translate_${tagName}_${className}_${textPreview}_${index}`
generateElementId(el, index) == <<el.tagName, textPreview(extractElementText(el)), index>>

\* the positions in the document of the elements analyzePageElements keeps
validElements(d) == {i \in 1..Len(d) : isElementTranslatable(d[i])}

\* index of position i among the valid elements, from 0
validIndex(d, i) == Cardinality({j \in validElements(d) : j < i})

\* whether the forEach of analyzePageElements registers the element at i
registers(d, i) ==
  i \in validElements(d) /\ Len(trim(extractElementText(d[i]))) > 0

\* document.querySelector(`[data-translate-id="${elementId}"]`): position of the
\* first match, 0 for none
querySelector(d, elementId) ==
  IF \E i \in 1..Len(d) : d[i].translateId = elementId
  THEN CHOOSE i \in 1..Len(d) :
         /\ d[i].translateId = elementId
         /\ \A j \in 1..(i - 1) : d[j].translateId # elementId
  ELSE 0

\* applyTranslationToElement; updateElementTextContent sets textContent of an
\* element without children
applyTranslationToElement(el, translatedText) ==
  IF el.tagName = "IMG" THEN [el EXCEPT !.alt = translatedText]
  ELSE IF el.tagName = "INPUT" THEN [el EXCEPT !.placeholder = translatedText]
  ELSE IF el.hasTitle THEN [el EXCEPT !.title = translatedText]
  ELSE [el EXCEPT !.textContent = translatedText]

\* the body of restoreOriginalPage's forEach for one element
restoreElement_swap(el) ==
  IF el.translated /\ el.translateId # NoId /\ el.originalText # <<>>
  THEN [applyTranslationToElement(el, el.originalText) EXCEPT
          !.originalText = IF el.tagName = "IMG" THEN el.alt
                           ELSE IF el.tagName = "INPUT" THEN el.placeholder
                           ELSE IF el.hasTitle THEN el.title
                           ELSE el.textContent]
  ELSE el
restoreElement(el) ==
  IF el.translated /\ el.translateId # NoId /\ el.originalText # <<>>
  THEN [applyTranslationToElement(el, el.originalText) EXCEPT
          !.translated = FALSE, !.originalText = <<>>]
  ELSE el

\* the second forEach of restoreOriginalPage: data-processed is removed
clearProcessed(el) == [el EXCEPT !.processed = FALSE]

\* the document after restoreOriginalPage
restoredDocument(d) == [i \in 1..Len(d) |-> clearProcessed(restoreElement(d[i]))]

\* the value slots of an element
slots(el) ==
  [textContent |-> el.textContent, alt |-> el.alt, placeholder |-> el.placeholder,
   title |-> el.title]

\* ---- the page translation session ----
\* enum ElementPriority
ElementPriority_TITLE == 1
ElementPriority_HEADING == 2
ElementPriority_PARAGRAPH == 3
ElementPriority_LIST == 4
ElementPriority_LINK == 5
ElementPriority_BUTTON == 6
ElementPriority_LABEL == 7
ElementPriority_OTHER == 8

\* getElementPriority (the elements of the model are outside any <header> and
\* have no class, so that the HEADING branch is not taken)
getElementPriority(el) ==
  IF el.tagName \in {"H1", "H2", "H3", "H4", "H5", "H6", "TITLE"} THEN ElementPriority_TITLE
  ELSE IF el.tagName \in {"P", "DIV"} /\ Len(extractElementText(el)) > 50 THEN ElementPriority_PARAGRAPH
  ELSE IF el.tagName \in {"LI", "UL", "OL", "DL", "DT", "DD"} THEN ElementPriority_LIST
  ELSE IF el.tagName = "A" THEN ElementPriority_LINK
  ELSE IF el.tagName \in {"BUTTON", "INPUT"} THEN ElementPriority_BUTTON
  ELSE IF el.tagName \in {"LABEL", "SPAN", "SMALL", "CAPTION", "LEGEND"} THEN ElementPriority_LABEL
  ELSE ElementPriority_OTHER

\* isElementVisible: the element's rectangle meets the viewport
isElementVisible(el) == el.inViewport

\* the TranslatableElement analyzePageElements builds for the element at i
translatableElement(d, i) ==
  [elementId |-> generateElementId(d[i], validIndex(d, i)),
   originalText |-> extractElementText(d[i]),
   priority |-> getElementPriority(d[i]),
   tagName |-> d[i].tagName,
   isVisible |-> isElementVisible(d[i])]

\* the comparator of analyzePageElements: visible first, then the lower
\* priority number, then the longer text
compareTranslatable(a, b) ==
  IF a.isVisible # b.isVisible THEN (IF a.isVisible THEN 0 - 1 ELSE 1)
  ELSE IF a.priority # b.priority THEN a.priority - b.priority
  ELSE Len(b.originalText) - Len(a.originalText)

RECURSIVE insertTranslatable(_, _)
insertTranslatable(s, x) ==
  IF s = <<>> THEN <<x>>
  ELSE IF compareTranslatable(Head(s), x) <= 0
       THEN <<Head(s)>> \o insertTranslatable(Tail(s), x)
       ELSE <<x>> \o s

\* this.translatableElements.sort(...): stable
RECURSIVE sortTranslatable(_)
sortTranslatable(list) ==
  IF list = <<>> THEN <<>>
  ELSE insertTranslatable(sortTranslatable(SubSeq(list, 1, Len(list) - 1)), list[Len(list)])

\* the elements the forEach of analyzePageElements pushes, in document order
RECURSIVE pushedFrom(_, _)
pushedFrom(d, i) ==
  IF i > Len(d) THEN <<>>
  ELSE (IF registers(d, i) THEN <<translatableElement(d, i)>> ELSE <<>>) \o pushedFrom(d, i + 1)

\* what analyzePageElements leaves: the list, the Map and the document
analyzedList(d) == sortTranslatable(pushedFrom(d, 1))

analyzedTexts(d) ==
  [id \in {generateElementId(d[i], validIndex(d, i)) :
             i \in {j \in 1..Len(d) : registers(d, j)}} |->
     LET i == CHOOSE j \in 1..Len(d) :
                registers(d, j) /\ generateElementId(d[j], validIndex(d, j)) = id
     IN extractElementText(d[i])]

analyzedDocument(d) ==
  [i \in 1..Len(d) |->
     IF registers(d, i)
     THEN [d[i] EXCEPT !.translateId = generateElementId(d[i], validIndex(d, i))]
     ELSE d[i]]

\* translateFullPage sends batchSize elements per request
batchSize == 5

\* createTranslationBatches
RECURSIVE createTranslationBatches(_)
createTranslationBatches(elements) ==
  IF elements = <<>> THEN <<>>
  ELSE <<SubSeq(elements, 1, Min(batchSize, Len(elements)))>>
       \o createTranslationBatches(SubSeq(elements, Min(batchSize, Len(elements)) + 1,
                                          Len(elements)))

\* the data of the TRANSLATE_BATCH message processBatch sends
batchData(batchElements, processedSoFar, totalElements) ==
  [elements |-> [i \in 1..Len(batchElements) |->
                   [elementId |-> batchElements[i].elementId,
                    text |-> batchElements[i].originalText,
                    tagName |-> batchElements[i].tagName,
                    priority |-> batchElements[i].priority]],
   processedSoFar |-> processedSoFar,
   totalElements |-> totalElements]

\* a JavaScript array as a message carries it: it has items, and no property
\* of another name
array(items) == [isArray |-> TRUE, items |-> items]

\* MessageRouter.handleTranslateBatch(data): texts is data.texts, undefined
\* when the message has no such property; translateBatch returns [] for
\* !texts || texts.length === 0 and otherwise, every translation succeeding,
\* the array of the TranslationResults
handleTranslateBatch(data) ==
  IF "texts" \notin DOMAIN data THEN array(<<>>)
  ELSE IF data.texts = <<>> THEN array(<<>>)
  ELSE array([i \in 1..Len(data.texts) |-> translationResult(data.texts[i], "en")])

\* the response setupMessageListener sends for a handler that resolved
messageResponse(data) == [success |-> TRUE, data |-> data]

\* handleBatchTranslationResults(results, batch): the (elementId, text) pairs
\* it hands to streamTranslationUpdate, and the ids it marks as processed
resultsToApply(results, batchElements) ==
  IF "translations" \notin DOMAIN results THEN <<>>
  ELSE [i \in 1..Min(Len(results.translations), Len(batchElements)) |->
          [elementId |-> batchElements[i].elementId,
           success |-> results.translations[i].success,
           translatedText |-> results.translations[i].translatedText]]

\* streamTranslationUpdate on the document and the Map
streamUpdate(state, elementId, translatedText) ==
  LET i == querySelector(state.dom, elementId)
      stored == IF elementId \in DOMAIN state.originalTexts
                THEN state.originalTexts
                ELSE (elementId :> state.dom[i].textContent) @@ state.originalTexts
  IN IF i = 0 THEN state
     ELSE [dom |-> [state.dom EXCEPT ![i] =
                      [applyTranslationToElement(state.dom[i], translatedText) EXCEPT
                         !.translated = TRUE, !.originalText = stored[elementId]]],
           originalTexts |-> stored,
           applied |-> Append(state.applied, elementId)]

\* markElementAsProcessed
markElementAsProcessed(state, elementId) ==
  LET i == querySelector(state.dom, elementId)
  IN IF i = 0 THEN state
     ELSE [state EXCEPT !.dom = [state.dom EXCEPT ![i] = [state.dom[i] EXCEPT !.processed = TRUE]]]

\* the forEach of handleBatchTranslationResults over the pairs
RECURSIVE applyResults(_, _)
applyResults(state, pairs) ==
  IF pairs = <<>> THEN state
  ELSE applyResults(IF Head(pairs).success /\ Head(pairs).translatedText # <<>>
                    THEN streamUpdate(state, Head(pairs).elementId, Head(pairs).translatedText)
                    ELSE markElementAsProcessed(state, Head(pairs).elementId),
                    Tail(pairs))

\* handleBatchTranslationError: every element of the batch is marked
RECURSIVE markBatch(_, _)
markBatch(state, batchElements) ==
  IF batchElements = <<>> THEN state
  ELSE markBatch(markElementAsProcessed(state, Head(batchElements).elementId),
                 Tail(batchElements))

\* the positions restoreOriginalPage's first forEach restores
restorable(d) ==
  {i \in 1..Len(d) : d[i].translated /\ d[i].translateId # NoId /\ d[i].originalText # <<>>}

NoRestores == [calls |-> 0, restored |-> 0]

NoRun == [state |-> "idle", batches |-> <<>>, batchIndex |-> 0, totalProcessed |-> 0,
          message |-> [none |-> TRUE]]

InitDom ==
  /\ dom = <<>>
  /\ originalTexts = <<>>
  /\ pristine = <<>>
  /\ passes = 0
  /\ lastStep = "none"

InitPage ==
  /\ translatableElements = <<>>
  /\ isFullPageTranslationActive = FALSE
  /\ pageRun = NoRun
  /\ applied = <<>>
  /\ restoresInARow = NoRestores

\* the content script is injected into a page
loadPage(page) ==
  /\ dom = <<>>
  /\ dom' = page
  /\ pristine' = page
  /\ lastStep' = "load"
  /\ UNCHANGED <<originalTexts, passes>>
  /\ UNCHANGED pageVars
  /\ UNCHANGED <<queueVars, cacheVars, batchVars, errorVars, storageVars, removalVars, priorityVars, selectionVars, debounceVars, recreateVars, realtimeVars, concurrentVars, callbackVars>>

\* analyzePageElements()
analyzePageElements ==
  /\ dom # <<>>
  /\ dom' = analyzedDocument(dom)
  /\ originalTexts' = analyzedTexts(dom)
  /\ translatableElements' = analyzedList(dom)
  /\ passes' = Min(passes + 1, 2)
  /\ lastStep' = "analyze"
  /\ restoresInARow' = NoRestores
  /\ UNCHANGED <<pristine, isFullPageTranslationActive, pageRun, applied>>
  /\ UNCHANGED <<queueVars, cacheVars, batchVars, errorVars, storageVars, removalVars, priorityVars, selectionVars, debounceVars, recreateVars, realtimeVars, concurrentVars, callbackVars>>

\* streamTranslationUpdate(elementId, translatedText) for an element the
\* selector finds
streamTranslationUpdate(elementId, translatedText) ==
  /\ elementId # NoId
  /\ querySelector(dom, elementId) # 0
  /\ LET after == streamUpdate([dom |-> dom, originalTexts |-> originalTexts,
                                applied |-> applied], elementId, translatedText)
     IN /\ originalTexts' = after.originalTexts
        /\ dom' = after.dom
  /\ lastStep' = "apply"
  /\ restoresInARow' = NoRestores
  /\ UNCHANGED <<pristine, passes>>
  /\ UNCHANGED <<translatableElements, isFullPageTranslationActive, pageRun, applied>>
  /\ UNCHANGED <<queueVars, cacheVars, batchVars, errorVars, storageVars, removalVars, priorityVars, selectionVars, debounceVars, recreateVars, realtimeVars, concurrentVars, callbackVars>>

\* restoreOriginalPage()
restoreOriginalPage ==
  /\ dom # <<>>
  /\ dom' = restoredDocument(dom)
  /\ isFullPageTranslationActive' = FALSE
  /\ lastStep' = "restore"
  /\ restoresInARow' =
       IF restoresInARow.calls = 0
       THEN [calls |-> 1, restored |-> Cardinality(restorable(dom))]
       ELSE [restoresInARow EXCEPT !.calls = 2]
  /\ UNCHANGED <<originalTexts, pristine, passes>>
  /\ UNCHANGED <<translatableElements, pageRun, applied>>
  /\ UNCHANGED <<queueVars, cacheVars, batchVars, errorVars, storageVars, removalVars, priorityVars, selectionVars, debounceVars, recreateVars, realtimeVars, concurrentVars, callbackVars>>

\* handleProgressBarAction('cancel'), the cancel button of the progress bar:
\* the action is sent to the background, then hideProgressBar() and
\* restoreOriginalPage()
handleProgressBarAction(action) ==
  /\ dom # <<>>
  /\ action = "cancel"
  /\ dom' = restoredDocument(dom)
  /\ isFullPageTranslationActive' = FALSE
  /\ lastStep' = "cancelButton"
  /\ restoresInARow' = NoRestores
  /\ UNCHANGED <<originalTexts, pristine, passes>>
  /\ UNCHANGED <<translatableElements, pageRun, applied>>
  /\ UNCHANGED <<queueVars, cacheVars, batchVars, errorVars, storageVars, removalVars, priorityVars, selectionVars, debounceVars, recreateVars, realtimeVars, concurrentVars, callbackVars>>

\* ContentScript.cancelTranslation(): the flags are set, hideProgressBar(),
\* restoreOriginalPage(), then the cancellation is sent to the background
ContentScript_cancelTranslation ==
  /\ dom # <<>>
  /\ dom' = restoredDocument(dom)
  /\ isFullPageTranslationActive' = FALSE
  /\ lastStep' = "cancel"
  /\ restoresInARow' = NoRestores
  /\ UNCHANGED <<originalTexts, pristine, passes>>
  /\ UNCHANGED <<translatableElements, pageRun, applied>>
  /\ UNCHANGED <<queueVars, cacheVars, batchVars, errorVars, storageVars, removalVars, priorityVars, selectionVars, debounceVars, recreateVars, realtimeVars, concurrentVars, callbackVars>>

\* the loop of translateFullPage after the batch at pageRun.batchIndex: the
\* delay before the next batch, or the finally block
afterBatch(run) ==
  IF run.batchIndex < Len(run.batches)
  THEN [run EXCEPT !.state = "delay",
                   !.totalProcessed = @ + Len(run.batches[run.batchIndex]),
                   !.message = [none |-> TRUE]]
  ELSE [run EXCEPT !.state = "done",
                   !.totalProcessed = @ + Len(run.batches[run.batchIndex]),
                   !.message = [none |-> TRUE]]

\* the number of elements translateFullPage works on
totalElements(run) ==
  LET RECURSIVE sum(_)
      sum(i) == IF i > Len(run.batches) THEN 0 ELSE Len(run.batches[i]) + sum(i + 1)
  IN sum(1)

\* processBatch up to its await: the message it sends
sendBatch(run, index) ==
  [run EXCEPT !.state = "awaiting", !.batchIndex = index,
              !.message = batchData(run.batches[index], run.totalProcessed,
                                    totalElements(run))]

\* translateFullPage(), for a TRANSLATE_FULL_PAGE message with action 'start',
\* up to the await of its first batch; one call at a time is followed
translateFullPage ==
  /\ dom # <<>>
  /\ ~isFullPageTranslationActive
  /\ pageRun.state \in {"idle", "done"}
  /\ LET analyze == Len(translatableElements) = 0
         list == IF analyze THEN analyzedList(dom) ELSE translatableElements
         elementsToTranslate == SelectSeq(list, LAMBDA el : Len(trim(el.originalText)) > 0)
         batches == createTranslationBatches(elementsToTranslate)
         run == [NoRun EXCEPT !.batches = batches]
     IN /\ IF analyze
           THEN /\ dom' = analyzedDocument(dom)
                /\ originalTexts' = analyzedTexts(dom)
                /\ passes' = Min(passes + 1, 2)
           ELSE UNCHANGED <<dom, originalTexts, passes>>
        /\ translatableElements' = list
        /\ IF batches = <<>>
           THEN /\ pageRun' = [run EXCEPT !.state = "done"]
                /\ isFullPageTranslationActive' = FALSE
           ELSE /\ pageRun' = sendBatch(run, 1)
                /\ isFullPageTranslationActive' = TRUE
  /\ lastStep' = "translateFullPage"
  /\ restoresInARow' = NoRestores
  /\ UNCHANGED <<pristine, applied>>
  /\ UNCHANGED <<queueVars, cacheVars, batchVars, errorVars, storageVars, removalVars, priorityVars, selectionVars, debounceVars, recreateVars, realtimeVars, concurrentVars, callbackVars>>

\* the background answers the TRANSLATE_BATCH message: processBatch goes on
\* with handleBatchTranslationResults, and translateFullPage with its loop
backgroundResponds ==
  /\ pageRun.state = "awaiting"
  /\ LET response == messageResponse(handleTranslateBatch(pageRun.message))
         batchElements == pageRun.batches[pageRun.batchIndex]
         before == [dom |-> dom, originalTexts |-> originalTexts, applied |-> applied]
         after == IF response.success
                  THEN applyResults(before, resultsToApply(response.data, batchElements))
                  ELSE markBatch(before, batchElements)
     IN /\ dom' = after.dom
        /\ originalTexts' = after.originalTexts
        /\ applied' = after.applied
  /\ pageRun' = afterBatch(pageRun)
  /\ isFullPageTranslationActive' =
       IF pageRun'.state = "done" THEN FALSE ELSE isFullPageTranslationActive
  /\ lastStep' = "response"
  /\ restoresInARow' = NoRestores
  /\ UNCHANGED <<pristine, passes, translatableElements>>
  /\ UNCHANGED <<queueVars, cacheVars, batchVars, errorVars, storageVars, removalVars, priorityVars, selectionVars, debounceVars, recreateVars, realtimeVars, concurrentVars, callbackVars>>

\* chrome.runtime.sendMessage fails (chrome.runtime.lastError): processBatch
\* catches and calls handleBatchTranslationError
sendMessageRejects ==
  /\ pageRun.state = "awaiting"
  /\ LET batchElements == pageRun.batches[pageRun.batchIndex]
         after == markBatch([dom |-> dom, originalTexts |-> originalTexts,
                             applied |-> applied], batchElements)
     IN dom' = after.dom
  /\ pageRun' = afterBatch(pageRun)
  /\ isFullPageTranslationActive' =
       IF pageRun'.state = "done" THEN FALSE ELSE isFullPageTranslationActive
  /\ lastStep' = "sendFailed"
  /\ restoresInARow' = NoRestores
  /\ UNCHANGED <<originalTexts, pristine, passes, translatableElements, applied>>
  /\ UNCHANGED <<queueVars, cacheVars, batchVars, errorVars, storageVars, removalVars, priorityVars, selectionVars, debounceVars, recreateVars, realtimeVars, concurrentVars, callbackVars>>

\* await this.delay(100) between two batches is over: the next processBatch
batchDelayElapses ==
  /\ pageRun.state = "delay"
  /\ pageRun' = sendBatch(pageRun, pageRun.batchIndex + 1)
  /\ lastStep' = "nextBatch"
  /\ restoresInARow' = NoRestores
  /\ UNCHANGED <<dom, originalTexts, pristine, passes>>
  /\ UNCHANGED <<translatableElements, isFullPageTranslationActive, applied>>
  /\ UNCHANGED <<queueVars, cacheVars, batchVars, errorVars, storageVars, removalVars, priorityVars, selectionVars, debounceVars, recreateVars, realtimeVars, concurrentVars, callbackVars>>

NextDom ==
  \/ \E page \in Pages : loadPage(page)
  \/ analyzePageElements
  \/ \E elementId \in {dom[i].translateId : i \in 1..Len(dom)}, t \in Translations :
       streamTranslationUpdate(elementId, t)
  \/ restoreOriginalPage
  \/ \E action \in {"cancel"} : handleProgressBarAction(action)
  \/ ContentScript_cancelTranslation

\* the documents of the page translation: a heading and a paragraph of 120
\* characters in both orders and with either outside the viewport, and a
\* document of more elements than one batch holds
Paragraph120 == [i \in 1..120 |-> 97 + (i % 26)]
headingElement == element("H1", TextPlain, <<>>, FALSE, <<>>)
paragraphElement == element("P", Paragraph120, <<>>, FALSE, <<>>)
outsideViewport(el) == [el EXCEPT !.inViewport = FALSE]
PageDocuments ==
  {<<h, q>> : h \in {headingElement, outsideViewport(headingElement)},
              q \in {paragraphElement, outsideViewport(paragraphElement)}}
  \cup {<<q, h>> : h \in {headingElement, outsideViewport(headingElement)},
                   q \in {paragraphElement, outsideViewport(paragraphElement)}}
  \cup {[i \in 1..(batchSize + 1) |-> element("P", TextPlain, <<>>, FALSE, <<>>)]}
  \cup {<<element("IMG", <<>>, <<>>, FALSE, <<>>)>>}

\* a page translation: the TRANSLATE_FULL_PAGE request, the answers of the
\* background, updates of single elements, and the restore and cancel requests
NextPage ==
  \/ \E page \in PageDocuments : loadPage(page)
  \/ translateFullPage
  \/ \E elementId \in {dom[i].translateId : i \in 1..Len(dom)} :
       streamTranslationUpdate(elementId, <<91, 49, 93>>)
  \/ backgroundResponds
  \/ sendMessageRejects
  \/ batchDelayElapses
  \/ restoreOriginalPage
  \/ ContentScript_cancelTranslation


\* ---- the content script of src/unnamed/part_006: findTranslatableElements ----
\* (its elements are displayed, not aria-hidden, without class, value or
\* aria-label, and every one matches the selector list)

\* getDirectTextContent: the direct text nodes, trimmed
getDirectTextContent(el) == trim(el.textContent)

\* extractTextContent
extractTextContent(el) ==
  LET text == IF el.tagName = "INPUT"
              THEN (IF el.placeholder # <<>> THEN el.placeholder ELSE el.title)
              ELSE IF el.tagName = "IMG"
              THEN (IF el.alt # <<>> THEN el.alt ELSE el.title)
              ELSE IF getDirectTextContent(el) # <<>> THEN getDirectTextContent(el)
              ELSE el.title
  IN trim(text)

\* isElementTranslatable of part_006
isElementTranslatable_part006(el) ==
  /\ el.tagName \notin {"SCRIPT", "STYLE", "NOSCRIPT"}
  /\ el.translationId = NoId

\* getElementPriority of part_006: by tag name alone
getElementPriority_part006(el) ==
  IF el.tagName \in {"TITLE", "H1"} THEN ElementPriority_TITLE
  ELSE IF el.tagName \in {"H2", "H3", "H4", "H5", "H6"} THEN ElementPriority_HEADING
  ELSE IF el.tagName \in {"P", "DIV"} THEN ElementPriority_PARAGRAPH
  ELSE IF el.tagName \in {"LI", "UL", "OL"} THEN ElementPriority_LIST
  ELSE IF el.tagName = "A" THEN ElementPriority_LINK
  ELSE IF el.tagName \in {"BUTTON", "INPUT"} THEN ElementPriority_BUTTON
  ELSE IF el.tagName \in {"LABEL", "SPAN", "SMALL"} THEN ElementPriority_LABEL
  ELSE ElementPriority_OTHER

\* isElementVisible of part_006: the rectangle meets the viewport vertically
isElementVisible_part006(el) == el.inViewport

\* whether the forEach of findTranslatableElements keeps the element at i
keeps(d, i) ==
  /\ isElementTranslatable_part006(d[i])
  /\ ~(Len(extractTextContent(d[i])) < 2)
  /\ ~(Len(extractTextContent(d[i])) > MAX_TEXT_LENGTH)

\* `translatable-${index}-${Date.now()}`, index counting every matched element
\* from 0; the clock does not advance during the call
translationIdOf(i) == <<"translatable", i - 1>>

RECURSIVE foundFrom(_, _)
foundFrom(d, i) ==
  IF i > Len(d) THEN <<>>
  ELSE (IF keeps(d, i)
        THEN <<[elementId |-> translationIdOf(i),
                originalText |-> extractTextContent(d[i]),
                priority |-> getElementPriority_part006(d[i]),
                tagName |-> d[i].tagName,
                isVisible |-> isElementVisible_part006(d[i])]>>
        ELSE <<>>) \o foundFrom(d, i + 1)

\* the comparator of findTranslatableElements: the priority number alone
comparePriorityOnly(a, b) == a.priority - b.priority

RECURSIVE insertByPriority(_, _)
insertByPriority(s, x) ==
  IF s = <<>> THEN <<x>>
  ELSE IF comparePriorityOnly(Head(s), x) <= 0
       THEN <<Head(s)>> \o insertByPriority(Tail(s), x)
       ELSE <<x>> \o s

RECURSIVE sortByPriority(_)
sortByPriority(list) ==
  IF list = <<>> THEN <<>>
  ELSE insertByPriority(sortByPriority(SubSeq(list, 1, Len(list) - 1)), list[Len(list)])

\* findTranslatableElements()
findTranslatableElements ==
  /\ dom # <<>>
  /\ dom' = [i \in 1..Len(dom) |->
               IF keeps(dom, i) THEN [dom[i] EXCEPT !.translationId = translationIdOf(i)]
               ELSE dom[i]]
  /\ translatableElements' = sortByPriority(foundFrom(dom, 1))
  /\ originalTexts' = [id \in {translationIdOf(i) : i \in {j \in 1..Len(dom) : keeps(dom, j)}} |->
                         extractTextContent(dom[CHOOSE j \in 1..Len(dom) : translationIdOf(j) = id])]
  /\ passes' = Min(passes + 1, 2)
  /\ lastStep' = "find"
  /\ restoresInARow' = NoRestores
  /\ UNCHANGED <<pristine, isFullPageTranslationActive, pageRun, applied>>
  /\ UNCHANGED <<queueVars, cacheVars, batchVars, errorVars, storageVars, removalVars, priorityVars, selectionVars, debounceVars, recreateVars, realtimeVars, concurrentVars, callbackVars>>

\* the documents of the extraction: two elements, each a heading, a short or
\* a long paragraph, a list item or an image, inside or outside the viewport
TextShort == <<72, 105, 32, 121, 111, 117>>                   \* "Hi you"
ExtractionElements ==
  {e : e \in {element("H1", TextPlain, <<>>, FALSE, <<>>),
              element("P", TextShort, <<>>, FALSE, <<>>),
              element("P", Paragraph120, <<>>, FALSE, <<>>),
              element("LI", TextPlain, <<>>, FALSE, <<>>),
              element("IMG", <<>>, AltText, FALSE, <<>>)}}
  \cup {outsideViewport(e) : e \in {element("H1", TextPlain, <<>>, FALSE, <<>>),
                                    element("P", TextShort, <<>>, FALSE, <<>>),
                                    element("P", Paragraph120, <<>>, FALSE, <<>>),
                                    element("LI", TextPlain, <<>>, FALSE, <<>>),
                                    element("IMG", <<>>, AltText, FALSE, <<>>)}}
ExtractionDocuments == {<<a, b>> : a \in ExtractionElements, b \in ExtractionElements}

NextExtraction ==
  \/ \E page \in ExtractionDocuments : loadPage(page)
  \/ findTranslatableElements

\* analyzePageElements on the same documents
NextAnalysis ==
  \/ \E page \in ExtractionDocuments : loadPage(page)
  \/ analyzePageElements

(***************************************************************************)
(* ErrorHandler: parseError, createError and handleError with its retries   *)
(* Error listeners are not modelled: notifyErrorListeners catches what      *)
(* they throw and changes nothing of the handler.                           *)
(***************************************************************************)
RETRY_DELAY == 1000
MaxHandled == 2       \* calls of handleError
MaxRounds == 4        \* calls of the retry callback within one handleError

MsgApiUnavailable == <<65, 80, 73, 32, 117, 110, 97, 118, 97, 105, 108, 97, 98, 108, 101>>   \* "API unavailable"
MsgModelUnavailable == <<77, 111, 100, 101, 108, 32, 117, 110, 97, 118, 97, 105, 108, 97, 98, 108, 101>>   \* "Model unavailable"
MsgNetwork == <<78, 101, 116, 119, 111, 114, 107, 32, 100, 111, 119, 110>>   \* "Network down"
MsgFetch == <<102, 101, 116, 99, 104, 32, 102, 97, 105, 108, 101, 100>>   \* "fetch failed"
MsgQuota == <<81, 117, 111, 116, 97, 32, 101, 120, 99, 101, 101, 100, 101, 100>>   \* "Quota exceeded"
MsgLimit == <<114, 97, 116, 101, 32, 108, 105, 109, 105, 116>>   \* "rate limit"
MsgInvalid == <<73, 110, 118, 97, 108, 105, 100, 32, 115, 111, 117, 114, 99, 101>>   \* "Invalid source"
MsgLanguage == <<110, 111, 32, 108, 97, 110, 103, 117, 97, 103, 101>>   \* "no language"
MsgTooLong == <<116, 101, 120, 116, 32, 116, 111, 111, 32, 108, 111, 110, 103>>   \* "text too long"
MsgLength == <<98, 97, 100, 32, 108, 101, 110, 103, 116, 104>>   \* "bad length"
MsgUnknown == <<98, 111, 111, 109>>   \* "boom"

\* the messages of the Error objects handleError is given
ErrorMessages ==
  {MsgApiUnavailable, MsgModelUnavailable, MsgNetwork, MsgFetch, MsgQuota, MsgLimit,
   MsgInvalid, MsgLanguage, MsgTooLong, MsgLength, MsgUnknown}

\* the words parseError looks for
WordApi == <<97, 112, 105>>            \* "api"
WordUnavailable == <<117, 110, 97, 118, 97, 105, 108, 97, 98, 108, 101>>    \* "unavailable"
\* "network", "fetch", "quota", "limit", "language", "invalid", "too long", "length"
Keywords ==
  {<<110, 101, 116, 119, 111, 114, 107>>,
   <<102, 101, 116, 99, 104>>,
   <<113, 117, 111, 116, 97>>,
   <<108, 105, 109, 105, 116>>,
   <<108, 97, 110, 103, 117, 97, 103, 101>>,
   <<105, 110, 118, 97, 108, 105, 100>>,
   <<116, 111, 111, 32, 108, 111, 110, 103>>,
   <<108, 101, 110, 103, 116, 104>>}

ErrorTypes ==
  {"api_unavailable", "network_error", "invalid_language", "text_too_long", "quota_exceeded"}

ErrorContext == "translation"

\* s.includes(sub)
includes(s, sub) ==
  \E i \in 0..(Len(s) - Len(sub)) : SubSeq(s, i + 1, i + Len(sub)) = sub

\* isErrorRetryable(type)
isErrorRetryable_all(type) == TRUE
isErrorRetryable(type) == type = "network_error" \/ type = "quota_exceeded"

\* getDefaultErrorMessage(type): the name of the ERROR_MESSAGES entry
getDefaultErrorMessage(type) ==
  IF type = "api_unavailable" THEN <<"API_UNAVAILABLE">>
  ELSE IF type = "network_error" THEN <<"NETWORK_ERROR">>
  ELSE IF type = "invalid_language" THEN <<"INVALID_LANGUAGE">>
  ELSE IF type = "text_too_long" THEN <<"TEXT_TOO_LONG">>
  ELSE IF type = "quota_exceeded" THEN <<"QUOTA_EXCEEDED">>
  ELSE <<"TRANSLATION_FAILED">>

\* createError(type), without a custom message
createError(type) ==
  [type |-> type, message |-> getDefaultErrorMessage(type), retryable |-> isErrorRetryable(type)]

NoError == [type |-> "none", message |-> <<>>, retryable |-> FALSE]

\* what is thrown: an Error with a message, or a TranslationError made by createError
thrownError(message) == [shape |-> "Error", text |-> message, error |-> NoError]
thrownTranslationError(type) == [shape |-> "TranslationError", text |-> <<>>, error |-> createError(type)]
NothingThrown == [shape |-> "none", text |-> <<>>, error |-> NoError]

Thrown ==
  {thrownError(m) : m \in ErrorMessages} \cup {thrownTranslationError(t) : t \in ErrorTypes}

\* parseError(error, context)
parseError(error, context) ==
  IF error.shape = "TranslationError" THEN error.error
  ELSE LET lowerMessage == toLowerCase(error.text)
       IN IF includes(lowerMessage, WordApi) /\ includes(lowerMessage, WordUnavailable)
          THEN [type |-> "api_unavailable", message |-> <<"API_UNAVAILABLE">>, retryable |-> FALSE]
          ELSE IF includes(lowerMessage, <<110, 101, 116, 119, 111, 114, 107>>) \/ includes(lowerMessage, <<102, 101, 116, 99, 104>>)
          THEN [type |-> "network_error", message |-> <<"NETWORK_ERROR">>, retryable |-> TRUE]
          ELSE IF includes(lowerMessage, <<113, 117, 111, 116, 97>>) \/ includes(lowerMessage, <<108, 105, 109, 105, 116>>)
          THEN [type |-> "quota_exceeded", message |-> <<"QUOTA_EXCEEDED">>, retryable |-> TRUE]
          ELSE IF includes(lowerMessage, <<108, 97, 110, 103, 117, 97, 103, 101>>) \/ includes(lowerMessage, <<105, 110, 118, 97, 108, 105, 100>>)
          THEN [type |-> "invalid_language", message |-> <<"INVALID_LANGUAGE">>, retryable |-> FALSE]
          ELSE IF includes(lowerMessage, <<116, 111, 111, 32, 108, 111, 110, 103>>) \/ includes(lowerMessage, <<108, 101, 110, 103, 116, 104>>)
          THEN [type |-> "text_too_long", message |-> <<"TEXT_TOO_LONG">>, retryable |-> FALSE]
          ELSE [type |-> "network_error", message |-> <<"TRANSLATION_FAILED", context>>,
                retryable |-> TRUE]

\* Math.pow(2, attempts)
RECURSIVE pow2(_)
pow2(n) == IF n = 0 THEN 1 ELSE 2 * pow2(n - 1)

\* this.retryAttempts.get(retryKey) || 0
attemptsOf(attempts, retryKey) ==
  IF retryKey \in DOMAIN attempts THEN attempts[retryKey] ELSE 0

\* this.retryAttempts.delete(retryKey)
deleteAttempts(attempts, retryKey) ==
  [k \in DOMAIN attempts \ {retryKey} |-> attempts[k]]

NoKey == <<>>

InitError ==
  /\ retryAttempts = <<>>
  /\ errorClock = 0
  /\ handling = [state |-> "idle", withCallback |-> FALSE, thrown |-> NothingThrown,
                 parsed |-> NoError, retryKey |-> NoKey, attempts |-> 0, delay |-> 0,
                 returned |-> "none", callbackCalls |-> 0, handled |-> 0]

\* the body of handleError(error, context, retryCallback) up to its first
\* await or its return; H is the call under way
handleErrorBody(H, error) ==
  LET translationError == parseError(error, ErrorContext)
      retryKey == <<ErrorContext, errorClock>>
      attempts == attemptsOf(retryAttempts, retryKey)
      H1 == [H EXCEPT !.thrown = error, !.parsed = translationError]
  IN IF translationError.retryable /\ H.withCallback /\ attempts < RETRY_ATTEMPTS
     THEN /\ retryAttempts' = (retryKey :> attempts + 1) @@ retryAttempts
          /\ handling' = [H1 EXCEPT !.state = "delaying", !.retryKey = retryKey,
                                    !.attempts = attempts,
                                    !.delay = RETRY_DELAY * pow2(attempts)]
     ELSE /\ UNCHANGED retryAttempts
          /\ handling' = [H1 EXCEPT !.state = "returned", !.returned = "error"]

\* handleError(error, context, retryCallback) is called
handleError(error, withCallback) ==
  /\ handling.state \in {"idle", "returned"}
  /\ handling.handled < MaxHandled
  /\ handleErrorBody([handling EXCEPT !.withCallback = withCallback, !.callbackCalls = 0,
                                      !.returned = "none", !.handled = @ + 1], error)
  /\ UNCHANGED errorClock
  /\ UNCHANGED <<queueVars, cacheVars, batchVars, domVars, storageVars, pageVars, removalVars, priorityVars, selectionVars, debounceVars, recreateVars, realtimeVars, concurrentVars, callbackVars>>

\* await this.delay(delay) is over: retryCallback() is called
delayElapses ==
  /\ handling.state = "delaying"
  /\ errorClock' = errorClock + handling.delay
  /\ handling' = [handling EXCEPT !.state = "retrying", !.callbackCalls = @ + 1]
  /\ UNCHANGED retryAttempts
  /\ UNCHANGED <<queueVars, cacheVars, batchVars, domVars, storageVars, pageVars, removalVars, priorityVars, selectionVars, debounceVars, recreateVars, realtimeVars, concurrentVars, callbackVars>>

\* await retryCallback() resolved: the retry count is cleared, the result returned
retryCallbackResolves ==
  /\ handling.state = "retrying"
  /\ retryAttempts' = deleteAttempts(retryAttempts, handling.retryKey)
  /\ handling' = [handling EXCEPT !.state = "returned", !.returned = "result"]
  /\ UNCHANGED errorClock
  /\ UNCHANGED <<queueVars, cacheVars, batchVars, domVars, storageVars, pageVars, removalVars, priorityVars, selectionVars, debounceVars, recreateVars, realtimeVars, concurrentVars, callbackVars>>

\* await retryCallback() rejected with retryError: the catch block
retryCallbackRejects(retryError) ==
  /\ handling.state = "retrying"
  /\ IF handling.attempts + 1 >= RETRY_ATTEMPTS
     THEN /\ retryAttempts' = deleteAttempts(retryAttempts, handling.retryKey)
          /\ handling' = [handling EXCEPT !.state = "returned", !.returned = "error",
                                          !.thrown = retryError,
                                          !.parsed = parseError(retryError, ErrorContext)]
     ELSE /\ parseError(retryError, ErrorContext).retryable => handling.callbackCalls < MaxRounds
          /\ handleErrorBody(handling, retryError)
  /\ UNCHANGED errorClock
  /\ UNCHANGED <<queueVars, cacheVars, batchVars, domVars, storageVars, pageVars, removalVars, priorityVars, selectionVars, debounceVars, recreateVars, realtimeVars, concurrentVars, callbackVars>>

NextError ==
  \/ \E error \in Thrown, withCallback \in BOOLEAN : handleError(error, withCallback)
  \/ delayElapses
  \/ retryCallbackResolves
  \/ \E retryError \in Thrown : retryCallbackRejects(retryError)

(***************************************************************************)
(* ContentScript: translateSelectedText, handleTranslationError and         *)
(* retryTranslation                                                         *)
(***************************************************************************)
MaxResends == 5       \* retry timers that fire for one selection
MaxSelections == 2    \* selections translated in one behaviour

\* this.parseError(error) of the content script for an error string
ContentScript_parseError(errorString) ==
  LET lowerError == toLowerCase(errorString)
  IN IF includes(lowerError, <<97, 112, 105, 95, 117, 110, 97, 118, 97, 105, 108, 97, 98, 108, 101>>)
        \/ (includes(lowerError, WordApi) /\ includes(lowerError, WordUnavailable))
     THEN [type |-> "api_unavailable", retryable |-> FALSE]
     ELSE IF includes(lowerError, <<110, 101, 116, 119, 111, 114, 107, 95, 101, 114, 114, 111, 114>>) \/ includes(lowerError, <<110, 101, 116, 119, 111, 114, 107>>)
     THEN [type |-> "network_error", retryable |-> TRUE]
     ELSE IF includes(lowerError, <<116, 101, 120, 116, 95, 116, 111, 111, 95, 108, 111, 110, 103>>) \/ includes(lowerError, <<116, 111, 111, 32, 108, 111, 110, 103>>)
     THEN [type |-> "text_too_long", retryable |-> FALSE]
     ELSE IF includes(lowerError, <<113, 117, 111, 116, 97, 95, 101, 120, 99, 101, 101, 100, 101, 100>>) \/ includes(lowerError, <<113, 117, 111, 116, 97>>)
     THEN [type |-> "quota_exceeded", retryable |-> TRUE]
     ELSE IF includes(lowerError, <<105, 110, 118, 97, 108, 105, 100, 95, 108, 97, 110, 103, 117, 97, 103, 101>>) \/ includes(lowerError, <<108, 97, 110, 103, 117, 97, 103, 101>>)
     THEN [type |-> "invalid_language", retryable |-> FALSE]
     ELSE [type |-> "network_error", retryable |-> TRUE]

MsgTranslationFailed == <<84, 114, 97, 110, 115, 108, 97, 116, 105, 111, 110, 32, 102, 97, 105, 108, 101, 100>>   \* "Translation failed"
MsgInvalidResult == <<73, 110, 118, 97, 108, 105, 100, 32, 116, 114, 97, 110, 115, 108, 97, 116, 105, 111, 110, 32, 114, 101, 115, 117, 108, 116>>   \* "Invalid translation result"

\* what the background answers to TRANSLATE_SELECTED: a translation, a
\* response without translatedText, or a failure with an error string
SelectedAnswers ==
  {[kind |-> "translated", error |-> <<>>], [kind |-> "empty", error |-> <<>>]}
  \cup {[kind |-> "failed", error |-> m] :
          m \in {MsgNetwork, MsgQuota, MsgApiUnavailable, MsgTooLong, MsgTranslationFailed}}

\* milliseconds between sending the message and its answer
Latencies == {0, 50}

NoSelection == <<>>

InitSelection ==
  /\ selectedText = NoSelection
  /\ isSelectionValid = FALSE
  /\ contentRetryAttempts = <<>>
  /\ contentClock = 0
  /\ selectedRun = [state |-> "idle", sends |-> 0, attempts |-> 0, delay |-> 0,
                    retryable |-> FALSE, selections |-> 0]

\* the user selects a text and triggers its translation: translateSelectedText(text)
\* sends TRANSLATE_SELECTED
selectAndTranslate(text) ==
  /\ selectedRun.state \in {"idle", "resultShown", "errorShown"}
  /\ selectedRun.selections < MaxSelections
  /\ selectedText' = text
  /\ isSelectionValid' = TRUE
  /\ selectedRun' = [state |-> "awaiting", sends |-> 1, attempts |-> 0, delay |-> 0,
                     retryable |-> FALSE, selections |-> selectedRun.selections + 1]
  /\ UNCHANGED <<contentRetryAttempts, contentClock>>
  /\ UNCHANGED <<queueVars, cacheVars, batchVars, domVars, errorVars, storageVars,
                 pageVars, removalVars, priorityVars, debounceVars, recreateVars, realtimeVars, concurrentVars, callbackVars>>

\* handleTranslationError(error) at time t
handleTranslationError(error, t) ==
  LET translationError == ContentScript_parseError(error)
      requestKey == <<selectedText, t>>
      attempts == attemptsOf(contentRetryAttempts, requestKey)
  IN IF translationError.retryable /\ attempts < RETRY_ATTEMPTS
     THEN /\ contentRetryAttempts' = (requestKey :> attempts + 1) @@ contentRetryAttempts
          /\ selectedRun' = [selectedRun EXCEPT !.state = "retryScheduled",
                                                !.attempts = attempts,
                                                !.delay = RETRY_DELAY * pow2(attempts),
                                                !.retryable = TRUE]
     ELSE /\ contentRetryAttempts' =
               IF translationError.retryable
               THEN deleteAttempts(contentRetryAttempts, requestKey)
               ELSE contentRetryAttempts
          /\ selectedRun' = [selectedRun EXCEPT !.state = "errorShown",
                                                !.retryable = translationError.retryable]

\* the answer of the background arrives: handleTranslationResult or
\* handleTranslationError
selectedAnswerArrives(answer, latency) ==
  /\ selectedRun.state = "awaiting"
  /\ contentClock' = contentClock + latency
  /\ IF answer.kind = "translated"
     THEN /\ selectedRun' = [selectedRun EXCEPT !.state = "resultShown"]
          /\ UNCHANGED contentRetryAttempts
     ELSE handleTranslationError(IF answer.kind = "empty" THEN MsgInvalidResult
                                 ELSE answer.error, contentClock')
  /\ UNCHANGED <<selectedText, isSelectionValid>>
  /\ UNCHANGED <<queueVars, cacheVars, batchVars, domVars, errorVars, storageVars,
                 pageVars, removalVars, priorityVars, debounceVars, recreateVars, realtimeVars, concurrentVars, callbackVars>>

\* the timer of handleTranslationError fires: retryTranslation()
retryTimerFires ==
  /\ selectedRun.state = "retryScheduled"
  /\ selectedRun.sends <= MaxResends
  /\ contentClock' = contentClock + selectedRun.delay
  /\ selectedRun' = IF selectedText # NoSelection /\ isSelectionValid
                    THEN [selectedRun EXCEPT !.state = "awaiting", !.sends = @ + 1]
                    ELSE [selectedRun EXCEPT !.state = "errorShown"]
  /\ UNCHANGED <<selectedText, isSelectionValid, contentRetryAttempts>>
  /\ UNCHANGED <<queueVars, cacheVars, batchVars, domVars, errorVars, storageVars,
                 pageVars, removalVars, priorityVars, debounceVars, recreateVars, realtimeVars, concurrentVars, callbackVars>>

\* the selection is dropped while a retry is scheduled
selectionLost ==
  /\ selectedRun.state = "retryScheduled"
  /\ isSelectionValid
  /\ isSelectionValid' = FALSE
  /\ UNCHANGED <<selectedText, contentRetryAttempts, contentClock, selectedRun>>
  /\ UNCHANGED <<queueVars, cacheVars, batchVars, domVars, errorVars, storageVars,
                 pageVars, removalVars, priorityVars, debounceVars, recreateVars, realtimeVars, concurrentVars, callbackVars>>

SelectedTexts == {<<97>>}

NextSelection ==
  \/ \E text \in SelectedTexts : selectAndTranslate(text)
  \/ \E answer \in SelectedAnswers, latency \in Latencies : selectedAnswerArrives(answer, latency)
  \/ retryTimerFires
  \/ selectionLost

(***************************************************************************)
(* DebounceManager: debounce and createDebouncedTranslation                 *)
(***************************************************************************)
MaxCalls == 4         \* calls of the debounced translation function
DebounceKeys == {"en:fr:a", "en:fr:b"}   \* `${sourceLang}:${targetLang}:${text}`
NoTimer == "none"
NoCaller == 0

InitDebounce ==
  /\ pendingTranslations = [k \in {} |-> NoCaller]
  /\ debounceTimer = NoTimer
  /\ translationsInFlight = {}
  /\ promises = [c \in 1..MaxCalls |-> "none"]
  /\ nextCaller = 1

OtherVarsOfDebounce ==
  <<queueVars, cacheVars, batchVars, domVars, errorVars, storageVars, pageVars,
    removalVars, priorityVars, selectionVars, recreateVars, realtimeVars, concurrentVars,
    callbackVars>>

\* the function createDebouncedTranslation returns is called with the
\* arguments of this key: the resolve and reject of the new promise are
\* stored under the key; debouncedFn, which clears the timer of 'translation'
\* and sets a new one, is called only when the key had no entry
debouncedTranslation(key) ==
  /\ nextCaller <= MaxCalls
  /\ promises' = [promises EXCEPT ![nextCaller] = "pending"]
  /\ pendingTranslations' = (key :> nextCaller) @@ pendingTranslations
  /\ debounceTimer' = IF key \in DOMAIN pendingTranslations THEN debounceTimer ELSE key
  /\ nextCaller' = nextCaller + 1
  /\ UNCHANGED translationsInFlight
  /\ UNCHANGED OtherVarsOfDebounce

\* the timer fires: debounceTimers.delete(debounceKey); func.apply(null, args)
\* runs up to await translationFn(...) when the key has an entry
debounceTimerFires ==
  /\ debounceTimer # NoTimer
  /\ debounceTimer' = NoTimer
  /\ translationsInFlight' =
       IF debounceTimer \in DOMAIN pendingTranslations
       THEN translationsInFlight
              \cup {[key |-> debounceTimer, pending |-> pendingTranslations[debounceTimer]]}
       ELSE translationsInFlight
  /\ UNCHANGED <<pendingTranslations, promises, nextCaller>>
  /\ UNCHANGED OtherVarsOfDebounce

\* translationFn settled: pending.resolve(result) or pending.reject(error),
\* then pendingTranslations.delete(key)
translationFnSettles(call, how) ==
  /\ call \in translationsInFlight
  /\ translationsInFlight' = translationsInFlight \ {call}
  /\ promises' = IF promises[call.pending] = "pending"
                 THEN [promises EXCEPT ![call.pending] = how] ELSE promises
  /\ pendingTranslations' =
       [k \in DOMAIN pendingTranslations \ {call.key} |-> pendingTranslations[k]]
  /\ UNCHANGED <<debounceTimer, nextCaller>>
  /\ UNCHANGED OtherVarsOfDebounce

NextDebounce ==
  \/ \E key \in DebounceKeys : debouncedTranslation(key)
  \/ debounceTimerFires
  \/ \E call \in translationsInFlight, how \in {"resolved", "rejected"} :
       translationFnSettles(call, how)

(***************************************************************************)
(* Content script of part_006: translateFullPage, translateElementsRealtime *)
(* applyTranslationToElement, restoreOriginalPage and cancelTranslation.    *)
(* The field translated of an element stands for the class                  *)
(* chrome-translate-translated here, originalText for data-original-text.   *)
(***************************************************************************)
MaxPasses == 2                        \* passes a loaded page is given

Separator == <<32, 124, 32>>          \* " | "

NoRealtime == [phase |-> "idle", i |-> 0, item |-> <<>>, restored |-> FALSE]

InitRealtime ==
  /\ isTranslating = FALSE
  /\ realtimeRun = NoRealtime
  /\ lateApplied = <<>>

OtherVarsOfRealtime ==
  <<queueVars, cacheVars, batchVars, errorVars, storageVars, removalVars, priorityVars,
    selectionVars, debounceVars, recreateVars, concurrentVars, callbackVars>>

\* the index in the document of the element of an item of the list
nodeOf(item) == item.elementId[2] + 1

\* what the element shows: the slot extractTextContent reads, and for a text
\* element its text nodes followed by the translation container
shownText(el) ==
  IF el.tagName = "IMG" THEN extractTextContent(el) ELSE el.textContent \o el.container

\* applyTranslationToElement(item, translatedText) of part_006 on document d:
\* the slot that holds originalText shows `${originalText} | ${translatedText}`
combinedText(originalText, translatedText) == originalText \o Separator \o translatedText

\* appendTranslationToElement: the container takes the place of the text node
\* that holds originalText, or is appended behind the text
appendTranslationToElement(el, originalText, translatedText) ==
  IF trim(el.textContent) = originalText
  THEN [el EXCEPT !.textContent = <<>>,
                  !.container = combinedText(originalText, translatedText)]
  ELSE [el EXCEPT !.container = combinedText(originalText, translatedText)]

applyCombined(d, item, translatedText) ==
  LET n == nodeOf(item)
      el == d[n]
      both == combinedText(item.originalText, translatedText)
      shown == IF el.tagName = "IMG"
               THEN (IF el.alt = item.originalText THEN [el EXCEPT !.alt = both]
                     ELSE IF el.title = item.originalText THEN [el EXCEPT !.title = both]
                     ELSE el)
               ELSE appendTranslationToElement(el, item.originalText, translatedText)
  IN [d EXCEPT ![n] = [shown EXCEPT !.translated = TRUE,
                                    !.originalText = item.originalText]]

\* currentText.split(' | ')[0]
RECURSIVE beforeSeparator(_)
beforeSeparator(text) ==
  IF Len(text) < Len(Separator) THEN text
  ELSE IF SubSeq(text, 1, Len(Separator)) = Separator THEN <<>>
  ELSE <<Head(text)>> \o beforeSeparator(Tail(text))

\* this.originalTexts after applyTranslationToElement
storedAfterApply(texts, item) ==
  IF item.elementId \in DOMAIN texts THEN texts
  ELSE (item.elementId :> item.originalText) @@ texts

\* restoreTextContent: a text node with originalText takes the place of the
\* container; without a container the text is set when it differs
restoreTextContent(el, originalText) ==
  IF el.container # <<>>
  THEN [el EXCEPT !.textContent = el.textContent \o originalText, !.container = <<>>]
  ELSE IF includes(trim(el.textContent), Separator)
  THEN (IF trim(beforeSeparator(trim(el.textContent))) = originalText
        THEN [el EXCEPT !.textContent = originalText] ELSE el)
  ELSE IF trim(el.textContent) # originalText
  THEN [el EXCEPT !.textContent = originalText]
  ELSE el

\* restoreOriginalPage of part_006 for one item of the list
restoreItem(d, texts, item) ==
  IF item.elementId \notin DOMAIN texts \/ texts[item.elementId] = <<>> THEN d
  ELSE LET n == nodeOf(item)
           el == d[n]
           originalText == texts[item.elementId]
           shown == IF el.tagName = "IMG"
                    THEN (IF includes(el.alt, Separator) THEN [el EXCEPT !.alt = originalText]
                          ELSE IF includes(el.title, Separator)
                          THEN [el EXCEPT !.title = originalText]
                          ELSE el)
                    ELSE restoreTextContent(el, originalText)
       IN [d EXCEPT ![n] = [shown EXCEPT !.translated = FALSE, !.originalText = <<>>,
                                         !.translationId = NoId]]

RECURSIVE restoreItems(_, _, _)
restoreItems(d, texts, list) ==
  IF list = <<>> THEN d
  ELSE restoreItems(restoreItem(d, texts, Head(list)), texts, Tail(list))

\* the head of the for loop of translateElementsRealtime at index i (from 0)
\* over the list as it is now: the next element is sent, or the loop ends
\* and translateFullPage's finally block runs
realtimeLoop(i, list, translating, restored) ==
  IF i < Len(list) /\ translating
  THEN /\ realtimeRun' = [phase |-> "awaiting", i |-> i, item |-> list[i + 1],
                          restored |-> restored]
       /\ isTranslating' = translating
  ELSE /\ realtimeRun' = NoRealtime
       /\ isTranslating' = FALSE

\* translateFullPage(targetLang) of part_006 is called, by a page that asks
\* again only while isTranslating holds (the call returns at once) or when
\* no earlier loop is still running
translateFullPage_part006 ==
  /\ dom # <<>>
  /\ realtimeRun.phase = "idle" \/ isTranslating
  /\ isTranslating \/ passes < MaxPasses
  /\ IF isTranslating
     THEN UNCHANGED <<dom, translatableElements, originalTexts, isTranslating, realtimeRun,
                      passes, lateApplied>>
     ELSE /\ lateApplied' = <<>>
          /\ dom' = [i \in 1..Len(dom) |->
                       IF keeps(dom, i)
                       THEN [dom[i] EXCEPT !.translationId = translationIdOf(i)]
                       ELSE dom[i]]
          /\ translatableElements' = sortByPriority(foundFrom(dom, 1))
          /\ originalTexts' =
               [id \in {translationIdOf(i) : i \in {j \in 1..Len(dom) : keeps(dom, j)}} |->
                  extractTextContent(dom[CHOOSE j \in 1..Len(dom) : translationIdOf(j) = id])]
          /\ passes' = passes + 1
          /\ realtimeLoop(0, translatableElements', TRUE, FALSE)
  /\ lastStep' = "translateFullPage"
  /\ UNCHANGED <<pristine, isFullPageTranslationActive, pageRun, applied, restoresInARow>>
  /\ UNCHANGED OtherVarsOfRealtime

\* await translateSingleElement(element) returned: the translation is
\* applied when there is one, then the loop waits 50 ms
singleElementReturns(translatedText) ==
  /\ realtimeRun.phase = "awaiting"
  /\ IF translatedText # <<>>
     THEN /\ dom' = applyCombined(dom, realtimeRun.item, translatedText)
          /\ originalTexts' = storedAfterApply(originalTexts, realtimeRun.item)
          /\ lateApplied' = IF realtimeRun.restored
                            THEN Append(lateApplied, realtimeRun.item.elementId)
                            ELSE lateApplied
     ELSE UNCHANGED <<dom, originalTexts, lateApplied>>
  /\ realtimeRun' = [realtimeRun EXCEPT !.phase = "delaying"]
  /\ lastStep' = "apply"
  /\ UNCHANGED <<pristine, passes, translatableElements, isFullPageTranslationActive, pageRun,
                 applied, restoresInARow, isTranslating>>
  /\ UNCHANGED OtherVarsOfRealtime

\* await this.delay(50) is over: i++ and the head of the loop
realtimeDelayElapses ==
  /\ realtimeRun.phase = "delaying"
  /\ realtimeLoop(realtimeRun.i + 1, translatableElements, isTranslating, realtimeRun.restored)
  /\ lastStep' = "delay"
  /\ UNCHANGED <<dom, originalTexts, pristine, passes, translatableElements,
                 isFullPageTranslationActive, pageRun, applied, restoresInARow, lateApplied>>
  /\ UNCHANGED OtherVarsOfRealtime

\* restoreOriginalPage() of part_006
restoreOriginalPage_part006 ==
  /\ dom # <<>>
  /\ dom' = restoreItems(dom, originalTexts, translatableElements)
  /\ translatableElements' = <<>>
  /\ originalTexts' = <<>>
  /\ isTranslating' = FALSE
  /\ realtimeRun' = IF realtimeRun.phase = "idle" THEN realtimeRun
                    ELSE [realtimeRun EXCEPT !.restored = TRUE]
  /\ lastStep' = "restore"
  /\ UNCHANGED <<pristine, passes, isFullPageTranslationActive, pageRun, applied,
                 restoresInARow, lateApplied>>
  /\ UNCHANGED OtherVarsOfRealtime

\* cancelTranslation() of part_006
cancelTranslation_part006 ==
  /\ isTranslating
  /\ isTranslating' = FALSE
  /\ lastStep' = "cancel"
  /\ UNCHANGED <<dom, originalTexts, pristine, passes, translatableElements,
                 isFullPageTranslationActive, pageRun, applied, restoresInARow, realtimeRun,
                 lateApplied>>
  /\ UNCHANGED OtherVarsOfRealtime

\* pages of two elements
RealtimeDocuments ==
  {<<element("H1", TextPlain, <<>>, FALSE, <<>>), element("P", TextShort, <<>>, FALSE, <<>>)>>,
   <<element("P", TextShort, <<>>, FALSE, <<>>), element("IMG", <<>>, AltText, FALSE, <<>>)>>}

\* what translateSingleElement returns: a translation or nothing
SingleAnswers == {<<91, 49, 93>>, <<>>}

NextRealtime ==
  \/ \E page \in RealtimeDocuments : loadPage(page)
  \/ translateFullPage_part006
  \/ \E translatedText \in SingleAnswers : singleElementReturns(translatedText)
  \/ realtimeDelayElapses
  \/ restoreOriginalPage_part006
  \/ cancelTranslation_part006

(***************************************************************************)
(* Content script: translateFullPage called again while its loop runs       *)
(***************************************************************************)
InitConcurrent == secondRun = NoRun

OtherVarsOfPage ==
  <<queueVars, cacheVars, batchVars, errorVars, storageVars, removalVars, priorityVars,
    selectionVars, debounceVars, recreateVars, realtimeVars, callbackVars>>

\* the loop of a call is between its first processBatch and its finally block
loopRunning(run) == run.state \in {"awaiting", "delay"}

\* translateFullPage() called while isFullPageTranslationActive: it returns
translateFullPageWhileActive ==
  /\ dom # <<>>
  /\ isFullPageTranslationActive
  /\ lastStep' = "translateFullPage"
  /\ restoresInARow' = NoRestores
  /\ UNCHANGED <<dom, originalTexts, pristine, passes, translatableElements,
                 isFullPageTranslationActive, pageRun, applied, secondRun>>
  /\ UNCHANGED OtherVarsOfPage

\* translateFullPage() called while the loop of an earlier call awaits a
\* batch or a delay, after the flag was put back to false
translateFullPageAgain ==
  /\ dom # <<>>
  /\ ~isFullPageTranslationActive
  /\ loopRunning(pageRun)
  /\ ~loopRunning(secondRun)
  /\ LET analyze == Len(translatableElements) = 0
         list == IF analyze THEN analyzedList(dom) ELSE translatableElements
         elementsToTranslate == SelectSeq(list, LAMBDA el : Len(trim(el.originalText)) > 0)
         batches == createTranslationBatches(elementsToTranslate)
         run == [NoRun EXCEPT !.batches = batches]
     IN /\ IF analyze
           THEN /\ dom' = analyzedDocument(dom)
                /\ originalTexts' = analyzedTexts(dom)
                /\ passes' = Min(passes + 1, 2)
           ELSE UNCHANGED <<dom, originalTexts, passes>>
        /\ translatableElements' = list
        /\ IF batches = <<>>
           THEN /\ secondRun' = [run EXCEPT !.state = "done"]
                /\ isFullPageTranslationActive' = FALSE
           ELSE /\ secondRun' = sendBatch(run, 1)
                /\ isFullPageTranslationActive' = TRUE
  /\ lastStep' = "translateFullPage"
  /\ restoresInARow' = NoRestores
  /\ UNCHANGED <<pristine, applied, pageRun>>
  /\ UNCHANGED OtherVarsOfPage

\* the background answers the TRANSLATE_BATCH message of the second loop
secondBackgroundResponds ==
  /\ secondRun.state = "awaiting"
  /\ LET response == messageResponse(handleTranslateBatch(secondRun.message))
         batchElements == secondRun.batches[secondRun.batchIndex]
         before == [dom |-> dom, originalTexts |-> originalTexts, applied |-> applied]
         after == IF response.success
                  THEN applyResults(before, resultsToApply(response.data, batchElements))
                  ELSE markBatch(before, batchElements)
     IN /\ dom' = after.dom
        /\ originalTexts' = after.originalTexts
        /\ applied' = after.applied
  /\ secondRun' = afterBatch(secondRun)
  /\ isFullPageTranslationActive' =
       IF secondRun'.state = "done" THEN FALSE ELSE isFullPageTranslationActive
  /\ lastStep' = "response"
  /\ restoresInARow' = NoRestores
  /\ UNCHANGED <<pristine, passes, translatableElements, pageRun>>
  /\ UNCHANGED OtherVarsOfPage

\* the delay between two batches of the second loop is over
secondDelayElapses ==
  /\ secondRun.state = "delay"
  /\ secondRun' = sendBatch(secondRun, secondRun.batchIndex + 1)
  /\ lastStep' = "nextBatch"
  /\ restoresInARow' = NoRestores
  /\ UNCHANGED <<dom, originalTexts, pristine, passes, translatableElements,
                 isFullPageTranslationActive, applied, pageRun>>
  /\ UNCHANGED OtherVarsOfPage

\* page translations requested at any moment, with restore and cancel
NextConcurrent ==
  \/ \E page \in PageDocuments : loadPage(page)
  \/ translateFullPage
  \/ translateFullPageWhileActive
  \/ translateFullPageAgain
  \/ backgroundResponds
  \/ batchDelayElapses
  \/ secondBackgroundResponds
  \/ secondDelayElapses
  \/ restoreOriginalPage
  \/ ContentScript_cancelTranslation

(***************************************************************************)
(* BatchTranslationManager with a caller whose onProgress callback throws   *)
(***************************************************************************)
CallbackModes == {"never", "first", "always"}

InitCallback ==
  /\ onProgressThrows = "never"
  /\ counted = <<>>
  /\ ran = <<>>
  /\ completedOnce = {}

\* the caller of translateBatch and its callback
callerArrives(mode) ==
  /\ apiPresent = "unknown"
  /\ onProgressThrows = "never"
  /\ mode # "never"
  /\ onProgressThrows' = mode
  /\ UNCHANGED <<counted, ran, completedOnce>>
  /\ UNCHANGED <<queueVars, cacheVars, batchVars, domVars, errorVars, storageVars, pageVars,
                 removalVars, priorityVars, selectionVars, debounceVars, recreateVars,
                 realtimeVars, concurrentVars>>

\* the objects of the background page with the history of the units
callbackState ==
  [queue |-> queue, current |-> current, processing |-> processing, phase |-> phase,
   processingQueue |-> processingQueue, memoryCache |-> memoryCache,
   cacheStats |-> cacheStats, isApiAvailable |-> isApiAvailable, batch |-> batch,
   progressLog |-> progressLog, unitOutcome |-> unitOutcome,
   callsStarted |-> callsStarted, counted |-> counted, ran |-> ran,
   completedOnce |-> completedOnce]

\* onProgress?.(progress) throws at this call
throwsNow(S, b) ==
  \/ onProgressThrows = "always"
  \/ onProgressThrows = "first" /\ S.progressLog[b] = <<>>

\* onResult(result, index) of processTextsWithQueue with that callback: what
\* it leaves, and whether the exception of onProgress went through it
onResultOrThrow(S, b, index, result) ==
  IF S.batch[b].aborted THEN [S |-> S, threw |-> FALSE]
  ELSE LET B == S.batch[b]
           completed == B.completed + 1
           percentage == percentageOf(completed, Len(B.texts))
           completedCount == B.completedCount + 1
           called == [S EXCEPT
                        !.batch[b] = [B EXCEPT !.results[index + 1] = result,
                                               !.completed = completed,
                                               !.percentage = percentage],
                        !.progressLog[b] = Append(@, [completed |-> completed,
                                                      percentage |-> percentage]),
                        !.counted = Append(@, index),
                        !.completedOnce = IF result.status = "completed"
                                          THEN @ \cup {index} ELSE @]
       IN IF throwsNow(S, b) THEN [S |-> called, threw |-> TRUE]
          ELSE [S |-> [called EXCEPT
                         !.batch[b].completedCount = completedCount,
                         !.batch[b].state =
                           IF allProcessed(completedCount, B.totalToProcess)
                           THEN "resolved" ELSE @],
                threw |-> FALSE]

\* processTranslationItem after translate settled: onResult(result, index) in
\* the try block, and in the catch block handleError and onResult(errorResult,
\* index); an exception out of the catch block rejects the processor
itemEnds(S, result, failed) ==
  LET d == S.current.data
      first == IF failed THEN [S |-> S, threw |-> TRUE]
               ELSE onResultOrThrow(S, d.batchId, d.index, result)
      second == onResultOrThrow(first.S, d.batchId, d.index, errorResult(d.sourceLang))
      last == IF first.threw THEN second ELSE first
  IN [S |-> [last.S EXCEPT !.ran = Append(@, d.index)], rejected |-> last.threw]

RECURSIVE loopAfter(_)
RECURSIVE beginWithCallback(_)

\* the try/catch of processQueue around the processor, and the loop's head
loopAfter(ended) ==
  LET S == IF ended.rejected
           THEN [ended.S EXCEPT !.queue = afterRejection(@, ended.S.current)]
           ELSE ended.S
  IN IF S.queue = <<>>
     THEN [S EXCEPT !.current = NoItem, !.processing = FALSE, !.phase = "idle"]
     ELSE beginWithCallback([S EXCEPT !.current = Head(S.queue), !.queue = Tail(S.queue),
                                      !.processing = TRUE, !.phase = "begun"])

\* processTranslationItem(item.data) up to the capability call
beginWithCallback(S) ==
  LET d == S.current.data
      o == translateBegins(S, d.text, d.sourceLang, d.targetLang)
  IN IF o.kind = "call"
     THEN [o.S EXCEPT !.phase = "calling",
                      !.processingQueue = @ \cup {processingKey(d)}]
     ELSE IF o.kind = "hit"
     THEN loopAfter(itemEnds(o.S, o.result, FALSE))
     ELSE loopAfter(itemEnds([o.S EXCEPT !.unitOutcome[d.batchId][d.index + 1] = "rejected"],
                             Null, TRUE))

\* the capability answers the call made for the queue item being processed
capabilityReturnsToCaller ==
  /\ phase = "calling"
  /\ LET d == current.data
         S0 == [callbackState EXCEPT !.processingQueue = @ \ {processingKey(d)}]
         after == IF failBudget[d.text] > 0
                  THEN loopAfter(itemEnds([S0 EXCEPT !.unitOutcome[d.batchId][d.index + 1] =
                                             IF failBudget[d.text] = 1 THEN "transient"
                                             ELSE "failing"],
                                          Null, TRUE))
                  ELSE loopAfter(itemEnds(translateCompletes(S0, d.text, d.sourceLang,
                                                             d.targetLang),
                                          translationResult(d.text, d.sourceLang), FALSE))
     IN /\ failBudget' = [failBudget EXCEPT ![d.text] = Max(0, @ - 1)]
        /\ becomes(after)
        /\ counted' = after.counted
        /\ ran' = after.ran
        /\ completedOnce' = after.completedOnce
  /\ UNCHANGED <<apiPresent, singles, onProgressThrows>>
  /\ UNCHANGED <<nextId, submitted, maxR, firstStarts, lastStart, execs, fails, retries,
                 outcome, addAfterSettle, removalVars, recreateVars>>
  /\ UNCHANGED <<now, cacheOps, lastOp, lastSetAt, lastAccessAt, evictedKeys, insertedKeys,
                 disturbed>>
  /\ UNCHANGED <<domVars, errorVars, storageVars, pageVars, priorityVars, selectionVars,
                 debounceVars, realtimeVars, concurrentVars>>

\* the batches of the caller: one or two of the texts, translated by a
\* capability that is present
CallbackInputs == UNION {[1..n -> BatchTexts] : n \in 1..MaxBatchLen}

NextCallback ==
  \/ \E mode \in CallbackModes : callerArrives(mode)
  \/ \E budget \in [BatchTexts -> FailBudgets] : environment("true", budget)
  \/ \E texts \in CallbackInputs : translateBatch(1, texts)
  \/ capabilityReturnsToCaller

(***************************************************************************)
(* Specifications                                                          *)
(***************************************************************************)
Init == InitQueue /\ InitCache /\ InitBatch /\ InitDom /\ InitError /\ InitStorage /\ InitPage /\ InitRemoval /\ InitPriority /\ InitSelection /\ InitDebounce /\ InitRecreate /\ InitRealtime /\ InitConcurrent /\ InitCallback

SpecQueue == Init /\ [][NextQueue]_vars

SpecCache == Init /\ [][NextCache]_vars

SpecBatch == Init /\ [][NextBatch]_vars

SpecDom == Init /\ [][NextDom]_vars

SpecSelected == Init /\ [][NextSelected]_vars

SpecError == Init /\ [][NextError]_vars

SpecStorage == Init /\ [][NextStorage]_vars

SpecPage == Init /\ [][NextPage]_vars

SpecSelection == Init /\ [][NextSelection]_vars

SpecDebounce == Init /\ [][NextDebounce]_vars

\* the timer fires and every call of translationFn settles
FairSpecDebounce ==
  /\ SpecDebounce
  /\ WF_vars(debounceTimerFires)
  /\ WF_vars(\E call \in translationsInFlight, how \in {"resolved", "rejected"} :
               translationFnSettles(call, how))

SpecLoad == Init /\ [][NextLoad]_vars

SpecRecreate == Init /\ [][NextRecreate]_vars

\* every call of the processor settles
FairSpecRecreate == SpecRecreate /\ WF_vars(processorResolves \/ processorRejects)

SpecCallback == Init /\ [][NextCallback]_vars

SpecCollision == Init /\ [][NextCollision]_vars

SpecConcurrent == Init /\ [][NextConcurrent]_vars

SpecRealtime == Init /\ [][NextRealtime]_vars

SpecPriority == Init /\ [][NextPriority]_vars

SpecRetry == Init /\ [][NextRetry]_vars

SpecRemoval == Init /\ [][NextRemoval]_vars

\* every call of the processor settles
FairSpecRemoval == SpecRemoval /\ WF_vars(processorResolves \/ processorRejects)

SpecExtraction == Init /\ [][NextExtraction]_vars

SpecAnalysis == Init /\ [][NextAnalysis]_vars

\* every call of the capability is answered
FairSpecBatch ==
  /\ SpecBatch
  /\ WF_vars(capabilityReturnsItem)
  /\ \A s \in 1..MaxSingles : WF_vars(capabilityReturnsSingle(s))


(***************************************************************************)
(* Properties of the queue                                                 *)
(***************************************************************************)
startedPriorities == [i \in 1..Len(firstStarts) |-> submitted[firstStarts[i]]]

\* three items submitted with priorities 1, 5, 3 before any processor call settled
burstOf153 == submitted = <<1, 5, 3>> /\ ~addAfterSettle /\ Len(firstStarts) = 3

inQueue(i) == \E k \in 1..Len(queue) : queue[k].id = i

C3_RetriedExactlyMaxRetries ==
  \A i \in 1..Len(maxR) :
    /\ retries[i] <= maxR[i]
    /\ outcome[i] = "failed" =>
         /\ retries[i] = maxR[i]
         /\ fails[i] = maxR[i] + 1
         /\ execs[i] = fails[i]
    /\ (execs[i] > 0 /\ fails[i] = execs[i] /\ current.id # i /\ ~inQueue(i)) =>
         outcome[i] = "failed"

C3_Witness ==
  \E i \in 1..Len(maxR) :
    outcome[i] = "failed" /\ maxR[i] = DefaultMaxRetries /\ retries[i] = DefaultMaxRetries

\* position of item i in the order of first executions, 0 if not yet executed
firstStartOf(i) ==
  IF \E k \in 1..Len(firstStarts) : firstStarts[k] = i
  THEN CHOOSE k \in 1..Len(firstStarts) : firstStarts[k] = i
  ELSE 0

\* C16: items submitted with the same priority are first executed in the
\* order of their submission, however submissions, completions and failures
\* interleave: when the later one has been started, the earlier one was
\* started before it.
C16_FifoWithinEqualPriority ==
  \A i \in 1..Len(submitted), j \in 1..Len(submitted) :
    (i < j /\ submitted[i] = submitted[j] /\ firstStartOf(j) # 0) =>
      (firstStartOf(i) # 0 /\ firstStartOf(i) < firstStartOf(j))

\* C16 witness: two items of one priority submitted while the first item was
\* running, so that both waited in the queue, all three executed; and the
\* same with the second submitted after the first item had failed
C16_Witness ==
  /\ Len(submitted) = 3
  /\ submitted[2] = submitted[3]
  /\ Len(firstStarts) = 3
  /\ ~addAfterSettle

C16_WitnessInterleaved ==
  /\ Len(submitted) = 3
  /\ submitted[1] = submitted[3]
  /\ submitted[2] = submitted[3]
  /\ retries[1] > 0
  /\ addAfterSettle
  /\ Len(firstStarts) = 3

\* maxConcurrency: this.MAX_CONCURRENT_TRANSLATIONS, the option initializeQueue
\* gives createQueue for the 'translation_batch' queue
maxConcurrency == 10

\* the number of items whose processor call is awaited
running == IF current.id # NoItem.id THEN 1 ELSE 0

\* C15: the queue runs up to maxConcurrency items at once: the number of
\* running items never exceeds maxConcurrency, and while fewer than
\* maxConcurrency items are running no item is left waiting in the queue
\* (a waiting item is started at once, also when a running one completes).
C15_RunsUpToMaxConcurrency ==
  /\ running <= maxConcurrency
  /\ running < maxConcurrency => queue = <<>>

\* the position of the item with this id in a sequence of items
positionOf(s, id) == CHOOSE i \in 1..Len(s) : s[i].id = id

\* a step in which the running item failed with retries left
failsWithAttemptsLeft == current # NoItem /\ fails' # fails /\ shouldRetry(current)

\* the fresh items waiting behind the running item with the priority it runs
\* with or the priority it was submitted with
freshWaiting ==
  {k \in 1..Len(queue) :
     /\ queue[k].retryCount = 0
     /\ queue[k].priority \in {current.priority, submitted[current.id]}}

\* the items in the order in which the drain loop takes them: the waiting
\* items keep their relative order in every step
orderKept ==
  \A i \in 1..Len(queue) : \A j \in (i + 1)..Len(queue) :
    LET after == IF current' = NoItem THEN queue' ELSE <<current'>> \o queue'
    IN (\E k \in 1..Len(after) : after[k].id = queue[i].id) /\
       (\E k \in 1..Len(after) : after[k].id = queue[j].id)
         => positionOf(after, queue[i].id) < positionOf(after, queue[j].id)

\* the re-entry of the failed item: one more attempt, the same data, and
\* behind every fresh item that waits with its priority
reentersBehindFresh(after) ==
  LET r == after[positionOf(after, current.id)]
  IN /\ r.retryCount = current.retryCount + 1
     /\ r.data = current.data
     /\ r.maxRetries = current.maxRetries
     /\ \A k \in freshWaiting :
          positionOf(after, queue[k].id) < positionOf(after, current.id)

\* C28: a task that fails with attempts left re-enters the queue with one
\* more attempt and a priority lower than before, behind every fresh task
\* that waits with the priority the failed task had.
C28_RetryLowersPriority ==
  [][failsWithAttemptsLeft =>
       LET after == <<current'>> \o queue'
       IN /\ reentersBehindFresh(after)
          /\ after[positionOf(after, current.id)].priority < current.priority]_vars

\* the priority of a retried task is lowered by one but not below 0; in
\* either case the task re-enters with one more attempt behind every fresh
\* task that waits with the priority the failed task had, and waiting tasks
\* are never reordered, so it is started after them
retryBehindFresh ==
  [][/\ orderKept
     /\ failsWithAttemptsLeft =>
          LET after == <<current'>> \o queue'
          IN /\ reentersBehindFresh(after)
             /\ after[positionOf(after, current.id)].priority
                  = Max(0, current.priority - 1)]_vars

\* C29: of two texts given the same index the shorter one does not get the
\* lower priority (the queue starts the higher priority first), and the same
\* text does not get a lower priority at a smaller index than at a larger one.
C29_ShorterAndEarlierFirst ==
  \A i \in 1..Len(computed) : \A j \in 1..Len(computed) :
    /\ (computed[i].index = computed[j].index
          /\ Len(computed[i].text) < Len(computed[j].text))
         => computed[i].priority >= computed[j].priority
    /\ (computed[i].text = computed[j].text /\ computed[i].index < computed[j].index)
         => computed[i].priority >= computed[j].priority

\* the same text does not get a lower priority at a smaller index
earlierIndexNotBehind ==
  \A i \in 1..Len(computed) : \A j \in 1..Len(computed) :
    (computed[i].text = computed[j].text /\ computed[i].index < computed[j].index)
      => computed[i].priority >= computed[j].priority

\* of two texts that isImportantContent treats alike the shorter one does not
\* get the lower priority at the same index
shorterNotBehindAmongAlike ==
  \A i \in 1..Len(computed) : \A j \in 1..Len(computed) :
    (/\ computed[i].index = computed[j].index
     /\ Len(computed[i].text) < Len(computed[j].text)
     /\ isImportantContent(computed[i].text) = isImportantContent(computed[j].text))
      => computed[i].priority >= computed[j].priority

\* the items of q other than the one with this id, as they stand in q
withoutItem(q, removedId) == SelectSeq(q, LAMBDA item : item.id # removedId)

\* the items that were submitted and not removed
keptItems == {i \in ItemIds : i < nextId /\ i \notin removed}

\* C27: a removal by id leaves every other waiting item in the queue with the
\* same data, priority and relative order, leaves the running item alone, and
\* again and again every item that was submitted and not removed is settled.
C27_RemovalLeavesOthers ==
  /\ [][\A removedId \in ItemIds :
          (removedId \in removed' /\ removedId \notin removed) =>
            /\ queue' = withoutItem(queue, removedId)
            /\ Len(queue') = Len(queue) - 1
            /\ current' = current
            /\ processing' = processing
            /\ outcome' = outcome]_vars
  /\ []<>(\A i \in keptItems : outcome[i] # "none")

\* C27 witness: the third item was removed and every other item succeeded
C27_Witness ==
  /\ removed = {3}
  /\ nextId > MaxRemovalTasks
  /\ \A i \in keptItems : outcome[i] = "succeeded"

\* a batch that is waiting while another batch is cancelled still returns
otherBatchesResolveAfterCancel ==
  \A b \in 1..MaxBatches : \A c \in 1..MaxBatches \ {b} :
    (batch[b].aborted /\ batch[c].state = "running" /\ ~batch[c].aborted)
      ~> (batch[c].state = "resolved" \/ batch[c].aborted)

(***************************************************************************)
(* Properties of the cache                                                 *)
(***************************************************************************)
lastOpKey == generateCacheKey(lastOp.text, lastOp.sourceLang, lastOp.targetLang)

sameArguments(a, b) ==
  a.text = b.text /\ a.sourceLang = b.sourceLang /\ a.targetLang = b.targetLang

\* C5: a get that directly follows a completed set with the same arguments
\* returns the result that was set; and a get made more than CACHE_EXPIRY after
\* the last set of its key returns null.
C5_SetThenGet ==
  /\ [][(lastOp.op = "set" /\ lastOp'.op = "get" /\ sameArguments(lastOp, lastOp'))
          => lastOp'.result = lastOp.result]_vars
  /\ [](lastOp.op = "get" /\ lastSetAt[lastOpKey] >= 0
          /\ now - lastSetAt[lastOpKey] > CACHE_EXPIRY
        => lastOp.result = Null)

C5_Witness ==
  /\ lastOp.op = "get"
  /\ lastSetAt[lastOpKey] >= 0
  /\ now - lastSetAt[lastOpKey] > CACHE_EXPIRY
  /\ lastOp.result = Null

presentKeys == {memoryCache[i].key : i \in 1..Len(memoryCache)}

\* C6: while distinct keys are inserted and nothing expires, the reported entry
\* count is min(number of keys inserted, MaxEntries), the keys no longer
\* present are exactly the evicted ones, and no evicted key was accessed (set,
\* or read by a successful get) later than a key still present.
C6_EvictsLeastRecentlyAccessed ==
  ~disturbed =>
    /\ getStats.totalEntries = Min(Cardinality(insertedKeys), MaxEntries)
    /\ evictedKeys = insertedKeys \ presentKeys
    /\ Cardinality(evictedKeys) = Cardinality(insertedKeys) - getStats.totalEntries
    /\ \A e \in evictedKeys, r \in presentKeys : lastAccessAt[e] <= lastAccessAt[r]

C6_Witness ==
  /\ ~disturbed
  /\ Cardinality(insertedKeys) = MaxEntries + 2
  /\ Cardinality(evictedKeys) = 2
  /\ cacheStats.hits = 1
  /\ \E r \in presentKeys : lastAccessAt[r] > lastSetAt[r]

\* the age of the stored entry of a key: Date.now() - entry.timestamp
ageOf(key) == now - memoryCache[indexOfKey(memoryCache, key)].timestamp

\* C21: has and get report an entry only while now - createdAt < CACHE_EXPIRY:
\* no key whose stored entry has reached that age is reported by has, and no
\* get returns a result for a key that was last set CACHE_EXPIRY or longer ago.
C21_ReportedOnlyBeforeTTL ==
  /\ \A k \in presentKeys : has(memoryCache, k, now) => ageOf(k) < CACHE_EXPIRY
  /\ (lastOp.op = "get" /\ lastOp.result # Null)
        => now - lastSetAt[lastOpKey] < CACHE_EXPIRY

\* C21, second half: a get that finds an entry older than CACHE_EXPIRY counts
\* a miss, returns null and removes the entry.
expiredGetRemoves ==
  [][(lastOp'.op = "get" /\ cacheOps'.gets = cacheOps.gets + 1
      /\ generateCacheKey(lastOp'.text, lastOp'.sourceLang, lastOp'.targetLang) \in presentKeys
      /\ ageOf(generateCacheKey(lastOp'.text, lastOp'.sourceLang, lastOp'.targetLang)) > CACHE_EXPIRY)
     => /\ lastOp'.result = Null
        /\ cacheStats'.misses = cacheStats.misses + 1
        /\ Len(memoryCache') = Len(memoryCache) - 1]_vars

\* C22: a failure of the persistent store never reaches the caller of a cache
\* operation (set, cleanup, clear, the initial load), and the Map is then what
\* the operation leaves when the store works: empty after clear, without
\* expired entries after cleanup.
C22_StorageFailureStaysInside ==
  /\ ~localStorage.threw
  /\ (localStorage.failed /\ lastOp.op = "clear") => memoryCache = <<>>
  /\ (localStorage.failed /\ lastOp.op = "cleanup")
        => \A k \in presentKeys : ~isExpired(memoryCache[indexOfKey(memoryCache, k)], now)

\* the part of C22 that saveCacheToStorage and LocalStorageManager.get keep:
\* only clear lets a failure of the store out
onlyClearPropagates ==
  [][(localStorage'.threw /\ ~localStorage.threw) => lastOp'.op = "clear"]_vars

(***************************************************************************)
(* Properties of translate and translateBatch                              *)
(***************************************************************************)
\* capability calls awaited at the moment for a text (same languages throughout)
callsInFlight(text) ==
  (IF phase = "calling" /\ current.data.text = text THEN 1 ELSE 0)
  + Cardinality({s \in 1..MaxSingles :
                   singles[s].state = "calling" /\ singles[s].text = text})

\* C1: while a capability call for a key (text, source, target) is in flight,
\* a second request for that key, from translateBatch or from single-text
\* translate, starts no second call: at most one call per key is in flight.
C1_OneCallInFlightPerKey ==
  \A text \in BatchTexts : callsInFlight(text) <= 1

resolvedBatches == {b \in 1..MaxBatches : batch[b].state = "resolved"}

\* C7: for a batch of N units onProgress is invoked exactly N times, the k-th
\* time with completed = k and percentage = round(100 * k / N), whatever the
\* split between cache hits and misses.
C7_ProgressOncePerUnit ==
  \A b \in resolvedBatches :
    LET N == Len(batch[b].texts)
    IN /\ Len(progressLog[b]) = N
       /\ \A k \in 1..Len(progressLog[b]) :
            /\ progressLog[b][k].completed = k
            /\ progressLog[b][k].percentage = percentageOf(k, N)

\* C8: in a batch that has returned there is one result per input, at the
\* input's index; a unit whose translation failed is ERROR, and every other
\* unit carries the completed translation of its own text.
C8_FailureIsIsolated ==
  \A b \in resolvedBatches :
    /\ Len(batch[b].results) = Len(batch[b].texts)
    /\ \A i \in 1..Len(batch[b].texts) :
         IF unitOutcome[b][i] # "none"
         THEN batch[b].results[i].status = "error"
         ELSE batch[b].results[i] = translationResult(batch[b].texts[i], BatchSourceLang)

\* C8 witness: a returned batch of two units, the first failed by the
\* capability and the second translated
C8_Witness ==
  \E b \in resolvedBatches :
    /\ Len(batch[b].texts) = 2
    /\ unitOutcome[b][1] = "transient"
    /\ batch[b].results[1].status = "error"
    /\ unitOutcome[b][2] = "none"
    /\ batch[b].results[2].status = "completed"
    /\ batch[b].totalToProcess = 2

\* C9: a unit whose first capability call fails while the next would succeed
\* is retried and ends COMPLETED.
C9_TransientFailureRetried ==
  \A b \in resolvedBatches :
    \A i \in 1..Len(batch[b].texts) :
      unitOutcome[b][i] = "transient" => batch[b].results[i].status = "completed"

\* C10: when every capability call is answered, a batch that is waiting and is
\* not cancelled eventually returns; a batch that has returned has no PENDING
\* result and its last progress notification says 100 percent.
C10_BatchEventuallyResolves ==
  /\ \A b \in 1..MaxBatches :
       (batch[b].state = "running" /\ ~batch[b].aborted)
         ~> (batch[b].state = "resolved" \/ batch[b].aborted)
  /\ [](\A b \in resolvedBatches :
          Len(batch[b].texts) > 0 =>
            /\ \A i \in 1..Len(batch[b].results) : batch[b].results[i].status # "pending"
            /\ progressLog[b] # <<>>
            /\ progressLog[b][Len(progressLog[b])].percentage = 100)

\* C10 witness: a batch returned after both of its units went to the capability
C10_Witness ==
  \E b \in resolvedBatches :
    /\ batch[b].totalToProcess = 2
    /\ \A i \in 1..2 : batch[b].results[i].status = "completed"
    /\ progressLog[b][Len(progressLog[b])].percentage = 100

\* no capability call is awaited for a unit that was waiting in the queue when
\* its batch was cancelled
noCallAfterCancel ==
  ~(/\ phase = "calling"
    /\ current.data.index \in batch[current.data.batchId].queuedAtCancel)

\* the unit that was running when its batch was cancelled has no result in
\* the batch
inFlightResultDiscarded ==
  \A b \in 1..MaxBatches :
    \A i \in batch[b].runningAtCancel : batch[b].results[i + 1] = Pending

\* C11: cancelling a batch cancels its waiting units: the capability is never
\* called for a unit that was waiting in the queue when its batch was
\* cancelled, and the result of a unit that was running at that moment is
\* not taken into the batch when it arrives.
C11_CancelledUnitsNeverCalled ==
  /\ noCallAfterCancel
  /\ inFlightResultDiscarded

\* C12: when every capability call is answered, a batch cancelled while its
\* units are waiting or running does not stay pending: the promise returned by
\* translateBatch eventually settles.
C12_CancelledBatchSettles ==
  \A b \in 1..MaxBatches :
    (batch[b].aborted /\ batch[b].state = "running") ~> (batch[b].state # "running")

\* the texts of the items that wait in the queue or are being executed
itemTexts ==
  {queue[k].data.text : k \in 1..Len(queue)}
    \cup (IF current.id # NoItem.id THEN {current.data.text} ELSE {})

\* C18: a text that validateTextLength rejects (empty, whitespace only or
\* longer than MAX_TEXT_LENGTH) is rejected before an item is created for it:
\* no item of the queue, waiting or executing, carries such a text.
C18_NoItemForInvalidText ==
  \A text \in itemTexts : validateTextLength(text) = "null"

\* the requests whose capability call is awaited outside the queue's processor
callsOutsideQueue == {s \in 1..MaxSingles : singles[s].state = "calling"}

\* C17: the capability is called only from an item the queue is executing:
\* no capability call is ever awaited by a request that is not a queue item.
C17_CapabilityOnlyFromQueueTask == callsOutsideQueue = {}

\* C20: when the source language is 'auto' and the language detection fails,
\* translate is not aborted by that failure: Translator.create has been called
\* for the request, with the source language 'auto'.
C20_DetectionFailureFallsBack ==
  \A s \in 1..MaxRequests :
    (singles[s].sourceLang = "auto" /\ singles[s].detection = "fails") =>
      /\ singles[s].called
      /\ singles[s].sourceLanguage = "auto"

\* C20 witness: a request with source language 'auto' whose detection failed
\* waits for the capability it called with 'auto'
C20_Witness ==
  \E s \in 1..MaxRequests :
    /\ singles[s].sourceLang = "auto"
    /\ singles[s].detection = "fails"
    /\ singles[s].state = "calling"
    /\ singles[s].sourceLanguage = "auto"

(***************************************************************************)
(* Properties of the content script                                        *)
(***************************************************************************)
\* C4: after one extraction pass, any sequence of streamTranslationUpdate
\* applies followed by restoreOriginalPage leaves every value slot (text, alt,
\* placeholder, title) of every element as it was before the first apply,
\* character for character.
C4_RestoreIsExact ==
  (lastStep = "restore" /\ passes = 1) =>
    \A i \in 1..Len(dom) : slots(dom[i]) = slots(pristine[i])

\* C13: cancelling a page translation retracts nothing: every element that
\* showed a translation before the cancel (by the progress bar's button or by
\* cancelTranslation) shows the same values afterwards and is still marked
\* translated.
C13_CancelKeepsMutations ==
  [][lastStep' \in {"cancel", "cancelButton"} =>
       \A i \in 1..Len(dom) :
         dom[i].translated =>
           slots(dom'[i]) = slots(dom[i]) /\ dom'[i].translated]_vars

\* the value of the slot that applyTranslationToElement writes
appliedSlot(el) ==
  IF el.tagName = "IMG" THEN el.alt
  ELSE IF el.tagName = "INPUT" THEN el.placeholder
  ELSE IF el.hasTitle THEN el.title
  ELSE el.textContent

\* an apply changes no original that is already recorded
applyKeepsRecordedOriginal ==
  [][lastStep' = "apply" =>
       \A id \in DOMAIN originalTexts :
         id \in DOMAIN originalTexts' /\ originalTexts'[id] = originalTexts[id]]_vars

\* C14: an apply never overwrites a recorded original, and after any number
\* of applies (one extraction pass) the original recorded for an element that
\* shows a translation is the value its slot had before the first apply.
C14_OriginalIsFirstValue ==
  /\ applyKeepsRecordedOriginal
  /\ [](passes = 1 =>
          \A i \in 1..Len(dom) :
            dom[i].translated =>
              /\ dom[i].originalText = appliedSlot(pristine[i])
              /\ originalTexts[dom[i].translateId] = appliedSlot(pristine[i]))

\* C23: restoreOriginalPage is idempotent: a call that directly follows another
\* call changes no element (value slots and data-* markers), not the Map of
\* original texts, not the list of elements and not the session flag.
C23_RestoreIsIdempotent ==
  [][(restoresInARow.calls >= 1 /\ restoresInARow'.calls = 2)
     => /\ dom' = dom
        /\ originalTexts' = originalTexts
        /\ translatableElements' = translatableElements
        /\ isFullPageTranslationActive' = isFullPageTranslationActive]_vars

\* restoreOriginalPage was called twice in a row, the first call restored an
\* element and found the page translation under way
C23_Witness ==
  /\ restoresInARow.calls = 2
  /\ restoresInARow.restored > 0
  /\ pageRun.state = "awaiting"

\* the name of the value slot extractElementText reads the text of an element from
extractedSlot(el) ==
  IF el.tagName = "IMG" THEN "alt"
  ELSE IF el.hasTitle /\ Len(el.title) > 10 THEN "title"
  ELSE IF el.tagName = "INPUT" THEN "placeholder"
  ELSE "textContent"

\* C24: an apply writes the translated text into the value slot the text of
\* the element was extracted from, and changes no other slot of the element.
C24_ApplyWritesExtractedSlot ==
  [][lastStep' = "apply" =>
       \A i \in 1..Len(dom) :
         dom'[i] # dom[i] =>
           /\ slots(dom'[i])[extractedSlot(dom[i])] \in Translations
           /\ \A n \in DOMAIN slots(dom[i]) :
                n # extractedSlot(dom[i]) => slots(dom'[i])[n] = slots(dom[i])[n]]_vars

\* the order of a list of units: visible before non-visible, then the lower
\* priority number, then the longer text
sortedAsClaimed(list) ==
  \A i \in 1..Len(list), j \in 1..Len(list) :
    i < j =>
      /\ list[j].isVisible => list[i].isVisible
      /\ (list[i].isVisible = list[j].isVisible) => list[i].priority <= list[j].priority
      /\ (list[i].isVisible = list[j].isVisible /\ list[i].priority = list[j].priority)
           => Len(list[i].originalText) >= Len(list[j].originalText)

\* C25: the list an extraction leaves is sorted: every visible unit precedes
\* every non-visible one; among units of equal visibility the lower priority
\* number comes first; among units of equal visibility and priority the
\* longer text comes first.
C25_ExtractionIsSorted == sortedAsClaimed(translatableElements)

\* the document of one h1 ("Hello") and one p of 120 characters, in either order
headingAndParagraph ==
  pristine \in {<<headingElement, paragraphElement>>, <<paragraphElement, headingElement>>}

\* the tag names of the elements the page translation updated, in order
appliedTags == [k \in 1..Len(applied) |-> dom[querySelector(dom, applied[k])].tagName]

\* the request for that document lists the heading before the paragraph
headingSentFirst ==
  (headingAndParagraph /\ pageRun.state = "awaiting")
    => /\ Len(pageRun.message.elements) = 2
       /\ pageRun.message.elements[1].tagName = "H1"
       /\ pageRun.message.elements[2].tagName = "P"

\* no answer of the background makes the page translation update an element
pageTranslationAppliesNothing == applied = <<>>

\* C26: when the page translation of the document of one h1 and one p of 120
\* characters has got the answer of the background for its elements, the
\* translated text has been applied to the h1 first and to the p second.
C26_HeadingAppliedBeforeParagraph ==
  (headingAndParagraph /\ pageRun.state = "done" /\ lastStep = "response")
    => appliedTags = <<"H1", "P">>

(***************************************************************************)
(* Properties of the error handler                                         *)
(***************************************************************************)
\* the message contains one of the word patterns parseError knows
matchesKnownPattern(message) ==
  LET lowerMessage == toLowerCase(message)
  IN \/ includes(lowerMessage, WordApi) /\ includes(lowerMessage, WordUnavailable)
     \/ \E word \in Keywords : includes(lowerMessage, word)

\* C19: an error classified as api_unavailable is not retryable and
\* handleError does not go on to the retry callback for it; and an Error whose
\* message matches no known pattern is classified as network_error, retryable.
C19_ApiUnavailableNeverRetried ==
  /\ handling.parsed.type = "api_unavailable" =>
       /\ ~handling.parsed.retryable
       /\ handling.state = "returned"
       /\ handling.returned = "error"
  /\ (handling.thrown.shape = "Error" /\ ~matchesKnownPattern(handling.thrown.text)) =>
       /\ handling.parsed.type = "network_error"
       /\ handling.parsed.retryable

\* C19 witness: handleError, given a retry callback, got an Error of unknown
\* message and called the callback once; the callback rejected with an
\* api_unavailable error, and handleError returned without calling it again
C19_Witness ==
  /\ handling.withCallback
  /\ handling.callbackCalls = 1
  /\ handling.parsed.type = "api_unavailable"
  /\ handling.state = "returned"

\* the retry callback is called at most RETRY_ATTEMPTS times within one
\* handleError
callbackCallsBounded == handling.callbackCalls <= RETRY_ATTEMPTS

\* the number of callback calls made before the wait under way or just over
callsBeforeWait ==
  IF handling.state = "delaying" THEN handling.callbackCalls ELSE handling.callbackCalls - 1

\* C30: within one handleError with a retry callback that keeps failing, the
\* callback is called at most RETRY_ATTEMPTS (3) times, and the wait before
\* call number n + 1 is RETRY_DELAY * 2^n (1000, 2000, 4000 ms).
C30_BoundedBackoff ==
  /\ callbackCallsBounded
  /\ handling.state \in {"delaying", "retrying"}
       => handling.delay = RETRY_DELAY * pow2(callsBeforeWait)

\* every wait of handleError is RETRY_DELAY
everyWaitIsRetryDelay ==
  handling.state \in {"delaying", "retrying"} => handling.delay = RETRY_DELAY

\* every handleError reads 0 attempts for its key
attemptsAlwaysZero == handling.attempts = 0

\* C31: for a selected text whose translation fails with a retryable error
\* every time, the content script sends the request again at most maxRetries
\* (RETRY_ATTEMPTS) times.
C31_ResendsBounded == selectedRun.sends - 1 <= RETRY_ATTEMPTS

\* every handleTranslationError reads 0 attempts for its key and waits RETRY_DELAY
contentAttemptsAlwaysZero ==
  selectedRun.attempts = 0 /\ selectedRun.delay \in {0, RETRY_DELAY}

\* a retryable error is never shown as final while the selection is kept
retryableNeverFinal ==
  (selectedRun.state = "errorShown" /\ selectedRun.retryable) => ~isSelectionValid

\* C32: every promise the debounced translation function returned is
\* eventually resolved or rejected, translationFn settling every time.
C32_EveryPromiseSettles ==
  \A c \in 1..MaxCalls : (promises[c] = "pending") ~> (promises[c] \in {"resolved", "rejected"})

\* a caller whose promise is pending is the one stored under a key or the one
\* a running call captured
pendingIsReachable ==
  \A c \in 1..MaxCalls :
    promises[c] = "pending" =>
      \/ \E k \in DOMAIN pendingTranslations : pendingTranslations[k] = c
      \/ \E call \in translationsInFlight : call.pending = c

\* a single call, with no other call before its promise settles, is settled
loneCallSettles ==
  (nextCaller = 2 /\ promises[1] = "pending")
    ~> (promises[1] \in {"resolved", "rejected"} \/ nextCaller > 2)

\* the entries of the Map that an earlier session stored
storedEntriesHeld ==
  {i \in 1..Len(memoryCache) :
     \E text \in {<<97>>, <<99>>} : memoryCache[i].result = storedResultFor(text)}

\* after the load the Map holds at most maxEntries entries
loadedWithinLimit == localStorage.loaded => Len(memoryCache) <= MaxEntries

\* C33: the load of the constructor never replaces an entry that set wrote
\* after construction (a key that was set holds what set wrote, if it is
\* held at all), and after the load the Map holds at most maxEntries entries.
C33_LoadKeepsWhatSetWrote ==
  /\ \A i \in storedEntriesHeld : memoryCache[i].key \notin insertedKeys
  /\ loadedWithinLimit

\* C34: no interleaving of addToQueue, createQueue and the end of a drain
\* loop leaves an item waiting in the queue while no drain loop is running.
C34_NoItemWaitsWithoutLoop == processing \/ queue = <<>>

\* every item added to the queue is eventually handed to the processor, every
\* processor call settling
everyItemHanded ==
  \A i \in 1..MaxTasks : (i < nextId) ~> (execs[i] > 0)

\* the elements that show something else than when the page was loaded
changedNodes == {n \in 1..Len(dom) : shownText(dom[n]) # shownText(pristine[n])}

\* a restore now would give the element its loaded text back
hasStoredOriginal(n) ==
  \E k \in 1..Len(translatableElements) :
    /\ nodeOf(translatableElements[k]) = n
    /\ translatableElements[k].elementId \in DOMAIN originalTexts
    /\ originalTexts[translatableElements[k].elementId] = shownText(pristine[n])

\* C35: a pass applies no translated text after restoreOriginalPage returned
\* during it, and every element that shows translated content has a stored
\* original from which a restore reconstructs it.
C35_RestoreStopsThePass ==
  /\ lateApplied = <<>>
  /\ \A n \in changedNodes : hasStoredOriginal(n)

\* a pass updates at most one element after a restore: the one it was waiting for
atMostOneLateApply == Len(lateApplied) <= 1

\* C36: at most one full-page translation pass is active at any time, in
\* every interleaving of translateFullPage with restoreOriginalPage and
\* cancelTranslation.
C36_OnePassAtATime == ~(loopRunning(pageRun) /\ loopRunning(secondRun))

\* a call made while isFullPageTranslationActive is set starts no loop
callWhileActiveStartsNothing ==
  [][(isFullPageTranslationActive /\ lastStep' = "translateFullPage")
       => (pageRun' = pageRun /\ secondRun' = secondRun)]_vars

\* while no restore or cancel has been requested, one loop runs at most
oneLoopWhileFlagFollowsIt ==
  [][(lastStep' \notin {"restore", "cancel"} /\ ~(loopRunning(pageRun) /\ loopRunning(secondRun))
      /\ (isFullPageTranslationActive <=> (loopRunning(pageRun) \/ loopRunning(secondRun))))
       => ~(loopRunning(pageRun') /\ loopRunning(secondRun'))]_vars

\* the text an extraction pass records for the element as the page was loaded
firstRecord(i) == extractElementText(pristine[i])

\* every recorded original is the one a pass over the loaded page records
recordsAreOriginals ==
  \A i \in 1..Len(dom) :
    dom[i].translateId \in DOMAIN originalTexts =>
      originalTexts[dom[i].translateId] = firstRecord(i)

\* the elements whose restore is exact after a single pass: the recorded text
\* is the text slot itself and no title takes the place of the text
plainElement(i) ==
  /\ pristine[i].tagName # "IMG"
  /\ ~pristine[i].hasTitle
  /\ firstRecord(i) = pristine[i].textContent

\* C37: an extraction pass that runs while elements show translated content
\* never records translated text as an element's original, and a restore
\* after it still yields each element's value from before the translation.
C37_SecondPassKeepsOriginals ==
  /\ recordsAreOriginals
  /\ lastStep = "restore" =>
       \A i \in 1..Len(dom) : plainElement(i) => slots(dom[i]) = slots(pristine[i])

\* after a single pass both halves hold
singlePassKeepsOriginals == passes = 1 => C37_SecondPassKeepsOriginals

\* part_006: a restore that finds no loop running leaves no element changed
restoreReachesEveryChange ==
  (lastStep = "restore" /\ realtimeRun.phase = "idle" /\ lateApplied = <<>>)
    => changedNodes = {}

\* the step is the rejection of the capability call of single request s
singleFails(s) == singles[s].state = "calling" /\ singles'[s].state = "rejected"

\* the step is the rejection of the capability call of the queue item
itemFails ==
  /\ phase = "calling"
  /\ unitOutcome[current.data.batchId][current.data.index + 1] = "none"
  /\ unitOutcome'[current.data.batchId][current.data.index + 1] \in {"transient", "failing"}

\* the step is a translate request for a text that is valid, has no cache
\* entry, and finds the capability present
singleAsksUncached(s) ==
  /\ singles[s].state = "idle"
  /\ singles'[s].state # "idle"
  /\ validateTextLength(singles'[s].text) = "null"
  /\ indexOfKey(memoryCache,
                generateCacheKey(singles'[s].text, singles'[s].sourceLang, BatchTargetLang)) = 0
  /\ apiPresent = "true"

failureAddsNoEntry ==
  [][  /\ \A s \in 1..MaxRequests :
            singleFails(s) =>
              \A key \in {generateCacheKey(singles[s].text, singles[s].sourceLang,
                                           BatchTargetLang)} :
                (indexOfKey(memoryCache, key) # 0 \/ indexOfKey(memoryCache', key) = 0)
      /\ itemFails =>
              \A key \in {generateCacheKey(current.data.text, current.data.sourceLang,
                                           current.data.targetLang)} :
                (indexOfKey(memoryCache, key) # 0 \/ indexOfKey(memoryCache', key) = 0)]_vars

\* text.trim().toLowerCase(), the form generateCacheKey hashes
normalizedText(text) == toLowerCase(trim(text))

\* the result get returned was stored for a text of the same normalized form
\* as the text asked for (resultFor quotes the text it was stored for)
sameTextReturned(texts) ==
  (lastOp.op = "get" /\ lastOp.result # Null) =>
    \E t \in texts :
      /\ lastOp.result = resultFor(t)
      /\ normalizedText(t) = normalizedText(lastOp.text)

\* C39: get never returns a result that was stored for a text whose
\* normalized form (trimmed, lower-cased) differs from that of the text asked
\* for.
C39_NoSharedEntry == sameTextReturned(CollidingTexts)

\* among texts whose hashes differ whenever their normalized forms do, it holds
sameTextAmongCacheTexts == sameTextReturned(CacheTexts)

\* how often the unit at index (from 0) occurs in a history
timesIn(history, index) == Cardinality({k \in 1..Len(history) : history[k] = index})

\* C40: 0 <= completed <= total in every state of a batch and each unit is
\* counted once, also when the caller's onProgress throws: a unit that was
\* translated keeps its COMPLETED result and is neither counted nor processed
\* a second time.
C40_CountedOnce ==
  \A b \in 1..MaxBatches :
    /\ batch[b].completed >= 0
    /\ batch[b].completed <= Len(batch[b].texts)
    /\ b = 1 =>
         \A index \in completedOnce :
           /\ batch[b].results[index + 1].status = "completed"
           /\ timesIn(counted, index) <= 1
           /\ timesIn(ran, index) <= 1

\* with a callback that returns, the claim holds
countedOnceWithoutThrow == onProgressThrows = "never" => C40_CountedOnce

\* with a callback that throws, the promise of the batch is never resolved
throwingBatchNeverReturns ==
  onProgressThrows = "always" => \A b \in 1..MaxBatches : batch[b].state # "resolved"

====
